---- MODULE Spec2Model ----
(***************************************************************************)
(* State-machine model of the CAAB certification API core: the per-resource *)
(* write lock (utils/writeLock), the Tickets service and the Orders service *)
(* with their read-through caches, over a spreadsheet store that executes   *)
(* one request at a time.                                                   *)
(*                                                                          *)
(* A sheet is a sequence of rows, a row a sequence of string cells.  The    *)
(* code's 0-based row index i is TLA+ index i + 1, which is also the row    *)
(* number of the A1 range the code builds (rowIndex + 1).                   *)
(*                                                                          *)
(* Every store call of a handler is a request in flight: the handler issues *)
(* it, StoreExec executes it against the sheet at some later step, and a    *)
(* continuation action of the handler resumes with the response.            *)
(***************************************************************************)
EXTENDS Integers, Sequences, FiniteSets, TLC

\* ------------------------------------------------------------------ bounds
MaxCalls == 3
MaxTicks == 1
MaxFailures == 1

\* --------------------------------------------------------------- constants
LOCK_TIMEOUT_MS == 30000
CACHE_TTL == 300000

Calls == 1..MaxCalls
Locks == {"orders", "tickets"}
TickSteps == {LOCK_TIMEOUT_MS, CACHE_TTL}

ASSIGNED == "Atribuído"
APPROVED == "Aprovado"
DENIED == "Recusado"

VARIABLES
  ordersSheet,       \* rows of sheet "pedidos", header first
  ticketsSheet,      \* rows of sheet "tickets", header first
  ordersCache,       \* ordersService cache: [present, data]
  ordersCacheTime,   \* ordersService cacheTime
  ticketsCache,      \* ticketsService cache: [present, data]
  ticketsCacheTime,  \* ticketsService cacheTime
  now,               \* Date.now(), in ms
  ticks,             \* clock advances made so far
  failures,          \* store calls that have failed so far
  nextUuid,          \* source of fresh uuids
  chain,             \* per lock: the calls whose task has not settled, in enqueue order
  chainOk,           \* per lock: the chain promise is not rejected
  timer,             \* per call: the time its lock timeout was armed, or -1
  op, arg, pc,       \* per call: operation, input and position
  req,               \* per call: its store request in flight
  loc,               \* per call: the handler's local variables
  result,            \* per call: the promise withWriteLock returned to the caller
  outcome,           \* per call: the promise of the handler itself (fn())
  requests,          \* rateLimiter's map: per client key its RateLimitData, if any
  production,        \* process.env.NODE_ENV === "production"
  http,              \* the HTTP request being handled, and its response
  elapses,           \* advances of the clock between requests made so far
  passed             \* per client key: the requests rateLimiter passed on, by time

sheetVars == <<ordersSheet, ticketsSheet>>
orderCacheVars == <<ordersCache, ordersCacheTime>>
ticketCacheVars == <<ticketsCache, ticketsCacheTime>>
cacheVars == <<ordersCache, ordersCacheTime, ticketsCache, ticketsCacheTime>>
clockVars == <<now, ticks>>
lockVars == <<chain, chainOk, timer>>
appVars == <<requests, production, http, elapses, passed>>
serviceVars == <<ordersSheet, ticketsSheet, ordersCache, ordersCacheTime, ticketsCache,
                 ticketsCacheTime, ticks, failures, nextUuid, chain, chainOk,
                 timer, op, arg, pc, req, loc, result, outcome>>
vars == <<ordersSheet, ticketsSheet, ordersCache, ordersCacheTime, ticketsCache,
          ticketsCacheTime, now, ticks, failures, nextUuid, chain, chainOk,
          timer, op, arg, pc, req, loc, result, outcome,
          requests, production, http, elapses, passed>>

\* ----------------------------------------------------------------- strings
RECURSIVE TrimStart(_)
TrimStart(s) ==
  IF Len(s) > 0 /\ SubSeq(s, 1, 1) = " " THEN TrimStart(SubSeq(s, 2, Len(s))) ELSE s

RECURSIVE TrimEnd(_)
TrimEnd(s) ==
  IF Len(s) > 0 /\ SubSeq(s, Len(s), Len(s)) = " "
  THEN TrimEnd(SubSeq(s, 1, Len(s) - 1)) ELSE s

\* String.prototype.trim
Trim(s) == TrimEnd(TrimStart(s))

\* nowBR(): the clock formatted to the second
nowBR == ToString(now \div 1000)

\* crypto.randomUUID(): a value no earlier call has drawn
randomUUID == "u" \o ToString(nextUuid)

\* -------------------------------------------------------------------- rows
\* row[j - 1] || ""
Cell(row, j) == IF j <= Len(row) THEN row[j] ELSE ""

Min(S) == CHOOSE x \in S : \A y \in S : x <= y

TicketsHeader == <<"ticket", "status">>
OrdersHeader == <<"uuid", "ticket", "numero_oab", "nome_completo", "subsecao",
                  "data_solicitacao", "data_liberacao", "status", "anotacoes">>

rowToOrder(row) ==
  [uuid |-> Cell(row, 1), ticket |-> Cell(row, 2), numero_oab |-> Cell(row, 3),
   nome_completo |-> Cell(row, 4), subsecao |-> Cell(row, 5),
   data_solicitacao |-> Cell(row, 6), data_liberacao |-> Cell(row, 7),
   status |-> Cell(row, 8), anotacoes |-> Cell(row, 9)]

orderToRow(o) ==
  <<o.uuid, o.ticket, o.numero_oab, o.nome_completo, o.subsecao,
    o.data_solicitacao, o.data_liberacao, o.status, o.anotacoes>>

\* rows.slice(1).map(rowToOrder)
DecodeOrders(rows) == [i \in 1..(Len(rows) - 1) |-> rowToOrder(rows[i + 1])]

rowToTicket(row) == [ticket |-> Cell(row, 1), status |-> Cell(row, 2)]

\* rows.slice(1).filter(row => row[0]).map(...)
DecodeTickets(rows) ==
  LET body == [i \in 1..(Len(rows) - 1) |-> rows[i + 1]]
      kept == SelectSeq(body, LAMBDA r : Cell(r, 1) # "")
  IN  [i \in 1..Len(kept) |-> rowToTicket(kept[i])]

\* Mutant: the header row is searched too
DataRowsWithHeader(rows) == 1..Len(rows)

\* i > 0 of rows.findIndex((row, i) => i > 0 && ...): the rows below the header
DataRows(rows) == 2..Len(rows)

\* Mutant: the index of the row above the first match
FindIndexAbove(S) == IF S = {} THEN -1 ELSE Min(S) - 2

\* Mutant: the index of the last of the matching rows
FindIndexLast(S) == IF S = {} THEN -1 ELSE (CHOOSE x \in S : \A y \in S : x >= y) - 1

\* Mutant: index 0 instead of -1 when no row matches
FindIndexOrHeader(S) == IF S = {} THEN 0 ELSE Min(S) - 1

\* rows.findIndex(...): the code's 0-based index of the first of the matching
\* rows S, or -1
FindIndex(S) == IF S = {} THEN -1 ELSE Min(S) - 1

\* ------------------------------------------------------------- the store
\* values.append: the row goes after the last row of the sheet
StoreAppend(sheet, row) == Append(sheet, row)

\* values.update on range <col><rowNum>: overwrites the cells given, growing
\* the sheet with blank rows when rowNum lies beyond its last row
StoreUpdate(sheet, rowNum, col, vals) ==
  LET padded == [i \in 1..(IF rowNum > Len(sheet) THEN rowNum ELSE Len(sheet)) |->
                   IF i <= Len(sheet) THEN sheet[i] ELSE <<>>]
      old == padded[rowNum]
      width == IF col + Len(vals) - 1 > Len(old) THEN col + Len(vals) - 1 ELSE Len(old)
      new == [j \in 1..width |->
                IF j >= col /\ j < col + Len(vals) THEN vals[j - col + 1] ELSE Cell(old, j)]
  IN  [padded EXCEPT ![rowNum] = new]

\* batchUpdate deleteDimension ROWS [startIndex, startIndex + 1): later rows shift up
StoreDeleteRow(sheet, startIndex) ==
  [i \in 1..(Len(sheet) - 1) |-> IF i <= startIndex THEN sheet[i] ELSE sheet[i + 1]]

SheetOf(name) == IF name = "pedidos" THEN ordersSheet ELSE ticketsSheet

NoReq == [st |-> "none", kind |-> "", sheet |-> "", rowNum |-> 0, col |-> 0,
          vals |-> <<>>, rows |-> <<>>]
GetReq(name) == [NoReq EXCEPT !.st = "sent", !.kind = "get", !.sheet = name]
AppendReq(name, row) ==
  [NoReq EXCEPT !.st = "sent", !.kind = "append", !.sheet = name, !.vals = row]
UpdateReq(name, rowNum, col, vals) ==
  [NoReq EXCEPT !.st = "sent", !.kind = "update", !.sheet = name,
                !.rowNum = rowNum, !.col = col, !.vals = vals]
DeleteReq(name, startIndex) ==
  [NoReq EXCEPT !.st = "sent", !.kind = "delete", !.sheet = name, !.rowNum = startIndex]

\* The sheet after request r has been executed
Executed(r) ==
  CASE r.kind = "append" -> StoreAppend(SheetOf(r.sheet), r.vals)
    [] r.kind = "update" -> StoreUpdate(SheetOf(r.sheet), r.rowNum, r.col, r.vals)
    [] r.kind = "delete" -> StoreDeleteRow(SheetOf(r.sheet), r.rowNum)
    [] OTHER -> SheetOf(r.sheet)

\* ------------------------------------------------------------- the caches
NoCache == [present |-> FALSE, data |-> <<>>]
Cached(data) == [present |-> TRUE, data |-> data]

\* Mutant: a snapshot aged exactly the TTL still counts as fresh
CacheHitAtTTL(cache, cacheTime) == cache.present /\ now - cacheTime <= CACHE_TTL

\* cache && now - cacheTime < CACHE_TTL
CacheHit(cache, cacheTime) == cache.present /\ now - cacheTime < CACHE_TTL

\* --------------------------------------------------------------- the calls
\* filters of getAllOrders(filters?): given is the set of keys that are present
NoFilters == [given |-> {}, status |-> "", ticket |-> "", oab |-> "",
              limit |-> 0, offset |-> 0]

NoArg == [ticket |-> "", newTicket |-> "", uuid |-> "", numero_oab |-> "",
          nome_completo |-> "", subsecao |-> "", anotacoes |-> "",
          fields |-> {}, data |-> <<>>, filters |-> NoFilters]
NoLoc == [found |-> "", currentStatus |-> "", ticket |-> "", duplicateOab |-> FALSE, existing_ticket |-> "",
          existing_date |-> "", order |-> <<>>]
NoResult == [kind |-> "pending", order |-> <<>>, conflict |-> FALSE,
             existing_ticket |-> "", existing_date |-> "", data |-> <<>>,
             total |-> 0]
Ok == [NoResult EXCEPT !.kind = "ok"]
Failure(kind) == [NoResult EXCEPT !.kind = kind]

WriteOps == {"createOrder", "updateOrder", "deleteOrder", "createTicket",
             "updateTicket", "deleteTicket"}

\* Mutant: one lock instance shared by both services
LockOfShared(o) == "orders"

\* ordersWriteLock for the Orders service, ticketsWriteLock for the Tickets service
LockOf(o) == IF o \in {"createOrder", "updateOrder", "deleteOrder"} THEN "orders" ELSE "tickets"

\* ----------------------------------------------------------- initial state
InitTicketSheets ==
  { <<TicketsHeader, <<"T1", ASSIGNED>>, <<"T2", "">>, <<"T3", "">> >>,
    <<TicketsHeader, <<"T1", ASSIGNED>> >> }

InitOrderSheets ==
  { <<OrdersHeader>>,
    <<OrdersHeader, <<"u0", "T1", "7 ", "A", "", "0", "0", APPROVED, "">> >> }

\* Module state after load: empty caches, resolved chains, no call made yet
InitServices ==
  /\ ordersCache = NoCache /\ ordersCacheTime = 0
  /\ ticketsCache = NoCache /\ ticketsCacheTime = 0
  /\ now = 0 /\ ticks = 0 /\ failures = 0 /\ nextUuid = 1
  /\ chain = [l \in Locks |-> <<>>]
  /\ chainOk = [l \in Locks |-> TRUE]
  /\ timer = [c \in Calls |-> -1]
  /\ op = [c \in Calls |-> "none"]
  /\ arg = [c \in Calls |-> NoArg]
  /\ pc = [c \in Calls |-> "idle"]
  /\ req = [c \in Calls |-> NoReq]
  /\ loc = [c \in Calls |-> NoLoc]
  /\ result = [c \in Calls |-> NoResult]
  /\ outcome = [c \in Calls |-> NoResult]

\* The app after load: an empty requests map, no request yet
InitApp ==
  /\ requests = [k \in {"k1", "k2"} |->
                   [present |-> FALSE, count |-> 0, windowStart |-> 0,
                    authFailures |-> 0, authFailStart |-> 0]]
  /\ http = [stage |-> "idle", key |-> "", route |-> "", https |-> FALSE,
             credentials |-> "", body |-> "", trail |-> <<>>, status |-> 0,
             service |-> "none", settled |-> "",
             error |-> [kind |-> "", app |-> FALSE, statusCode |-> 0, status |-> 0,
                        message |-> ""],
             carries |-> {}]
  /\ elapses = 0
  /\ passed = [k \in {"k1", "k2"} |-> {}]

InitProgram == InitServices /\ InitApp /\ production = FALSE

Init ==
  /\ ticketsSheet \in InitTicketSheets
  /\ ordersSheet \in InitOrderSheets
  /\ InitProgram

\* ---------------------------------------------------------- the write lock
\* Mutant: the task is run at once instead of being chained
CanStartWithoutWaiting(l, c) == \E i \in 1..Len(chain[l]) : chain[l][i] = c

\* Mutant: the task is run only when no other task is chained on the lock
CanStartOnLockOfItsOwn(l, c) == chainOk[l] /\ chain[l] = <<c>>

\* chain.then(...): the callback runs once the chain so far has fulfilled, that
\* is once every task enqueued before it on this lock has settled
CanStart(l, c) == chainOk[l] /\ Len(chain[l]) > 0 /\ Head(chain[l]) = c

\* Mutant: the failure is rethrown into the chain
ChainRejectsOnFailure(failed) == ~failed

\* try { resolve(await fn()) } catch (err) { reject(err) }: the chained callback
\* never throws, so the chain fulfils whether or not the task failed
ChainAfter(failed) == TRUE

\* Mutant: a later resolve or reject replaces the settlement
SettleAgain(old, r) == r

\* resolve(...) / reject(...) on the promise handed to the caller: only the
\* first settlement counts
Settle(old, r) == IF old.kind = "pending" THEN r ELSE old

\* withWriteLock(fn): the task is chained behind the lock's earlier tasks
withWriteLock(c, o, a) ==
  /\ pc[c] = "idle"
  /\ \A d \in Calls : d < c => pc[d] # "idle"
  /\ op' = [op EXCEPT ![c] = o]
  /\ arg' = [arg EXCEPT ![c] = a]
  /\ pc' = [pc EXCEPT ![c] = "queued"]
  /\ chain' = [chain EXCEPT ![LockOf(o)] = Append(@, c)]
  /\ UNCHANGED <<sheetVars, cacheVars, clockVars, failures, nextUuid, chainOk,
                 timer, req, loc, result, outcome>>
  /\ UNCHANGED appVars

\* The position a write handler waits at after its first store call
FirstPc(o) ==
  CASE o = "createOrder" -> "co_read"
    [] o = "updateOrder" -> "uo_read"
    [] o = "deleteOrder" -> "do_read"
    [] o = "createTicket" -> "ct_read"
    [] o = "updateTicket" -> "ut_read"
    [] OTHER -> "dt_read"

\* The chained callback starts: it arms the timeout and runs the handler up
\* to its first store call.  Every write handler begins with invalidateCache()
\* of its own service and a read of its own sheet (createOrder and createTicket
\* through readAll*, whose cache check misses right after the invalidation).
StartTask(c) ==
  /\ pc[c] = "queued"
  /\ CanStart(LockOf(op[c]), c)
  /\ timer' = [timer EXCEPT ![c] = now]
  /\ IF LockOf(op[c]) = "orders"
     THEN /\ ordersCache' = NoCache /\ ordersCacheTime' = 0
          /\ UNCHANGED ticketCacheVars
          /\ req' = [req EXCEPT ![c] = GetReq("pedidos")]
     ELSE /\ ticketsCache' = NoCache /\ ticketsCacheTime' = 0
          /\ UNCHANGED orderCacheVars
          /\ req' = [req EXCEPT ![c] = GetReq("tickets")]
  /\ pc' = [pc EXCEPT ![c] = FirstPc(op[c])]
  /\ UNCHANGED <<sheetVars, clockVars, failures, nextUuid, chain, chainOk, op,
                 arg, loc, result, outcome>>
  /\ UNCHANGED appVars

\* The task of call c has settled with r: the caller's promise is settled, the
\* timeout cleared (finally), and the chain moves on
FinishTask(c, r) ==
  /\ pc' = [pc EXCEPT ![c] = "done"]
  /\ req' = [req EXCEPT ![c] = NoReq]
  /\ result' = [result EXCEPT ![c] = Settle(@, r)]
  /\ outcome' = [outcome EXCEPT ![c] = r]
  /\ timer' = [timer EXCEPT ![c] = -1]
  /\ chain' = [chain EXCEPT ![LockOf(op[c])] = SelectSeq(@, LAMBDA d : d # c)]
  /\ chainOk' = [chainOk EXCEPT ![LockOf(op[c])] = @ /\ ChainAfter(r.kind # "ok")]

\* The handler of call c goes on to its next store call
Continue(c, position, request) ==
  /\ pc' = [pc EXCEPT ![c] = position]
  /\ req' = [req EXCEPT ![c] = request]
  /\ UNCHANGED <<lockVars, result, outcome>>

\* Mutant: the timeout gives the task's place in the chain up
ChainOnTimeoutReleases(ch, c) == SelectSeq(ch, LAMBDA d : d # c)

\* The timeout callback only rejects the caller's promise: the chained
\* callback is still awaiting fn(), so the chain is as it was
ChainOnTimeout(ch, c) == ch

\* The timeout of call c is armed and LOCK_TIMEOUT_MS have passed since
TimeoutDue(c) == timer[c] >= 0 /\ now - timer[c] >= LOCK_TIMEOUT_MS

\* setTimeout(() => reject(new AppError("Write operation timed out", 503)), LOCK_TIMEOUT_MS)
TimerFire(c) ==
  /\ TimeoutDue(c)
  /\ timer' = [timer EXCEPT ![c] = -1]
  /\ result' = [result EXCEPT ![c] = Settle(@, Failure("WriteTimeout"))]
  /\ chain' = [chain EXCEPT ![LockOf(op[c])] = ChainOnTimeout(@, c)]
  /\ UNCHANGED outcome
  /\ UNCHANGED <<sheetVars, cacheVars, clockVars, failures, nextUuid,
                 chainOk, op, arg, pc, req, loc>>
  /\ UNCHANGED appVars

\* ------------------------------------------------------- store and clock
Responded(c) == req[c].st \in {"ok", "err"}

\* The store executes the request of call c and answers
StoreExec(c) ==
  /\ req[c].st = "sent"
  /\ ordersSheet' = IF req[c].sheet = "pedidos" THEN Executed(req[c]) ELSE ordersSheet
  /\ ticketsSheet' = IF req[c].sheet = "tickets" THEN Executed(req[c]) ELSE ticketsSheet
  /\ req' = [req EXCEPT ![c].st = "ok",
                        ![c].rows = IF req[c].kind = "get" THEN SheetOf(req[c].sheet) ELSE <<>>]
  /\ UNCHANGED <<cacheVars, clockVars, failures, nextUuid, lockVars, op, arg,
                 pc, loc, result, outcome>>
  /\ UNCHANGED appVars

\* The request of call c fails (transport or auth error); the sheet is untouched
StoreFail(c) ==
  /\ req[c].st = "sent"
  /\ failures < MaxFailures
  /\ failures' = failures + 1
  /\ req' = [req EXCEPT ![c].st = "err"]
  /\ UNCHANGED <<sheetVars, cacheVars, clockVars, nextUuid, lockVars, op, arg,
                 pc, loc, result, outcome>>
  /\ UNCHANGED appVars

Tick ==
  /\ ticks < MaxTicks
  /\ \E d \in TickSteps : now' = now + d
  /\ ticks' = ticks + 1
  /\ UNCHANGED <<sheetVars, cacheVars, failures, nextUuid, lockVars, op, arg,
                 pc, req, loc, result, outcome>>
  /\ UNCHANGED appVars

\* ------------------------------------------------------ the Orders service
OabInputs == {"", " ", " 7"}

Max(S) == CHOOSE x \in S : \A y \in S : x >= y

\* Mutant: the last match instead of the first
ExistingOrderLast(orders, normalizedOab) ==
  LET S == {i \in 1..Len(orders) : Trim(orders[i].numero_oab) = normalizedOab}
  IN  IF normalizedOab = "" \/ S = {} THEN 0 ELSE Max(S)

\* Mutant: the search is made for an empty OAB too
ExistingOrderEvenIfEmpty(orders, normalizedOab) ==
  LET S == {i \in 1..Len(orders) : Trim(orders[i].numero_oab) = normalizedOab}
  IN  IF S = {} THEN 0 ELSE Min(S)

\* Mutant: the search stops short of the most recent order
ExistingOrderButLatest(orders, normalizedOab) ==
  LET S == {i \in 1..(Len(orders) - 1) :
              Trim(orders[i].numero_oab) = normalizedOab}
  IN  IF normalizedOab = "" \/ S = {} THEN 0 ELSE Min(S)

\* existing.find((o) => o.numero_oab.trim() === normalizedOab), looked for only
\* when normalizedOab is non-empty: the position of the match, or 0
ExistingOrder(orders, normalizedOab) ==
  LET S == {i \in 1..Len(orders) : Trim(orders[i].numero_oab) = normalizedOab}
  IN  IF normalizedOab = "" \/ S = {} THEN 0 ELSE Min(S)

\* Mutant: the allocator is called for a duplicate too
AllocatesAlways(duplicateOab) == TRUE

\* if (!duplicateOab) { ticket = await assignAvailableTicket() }
AllocatesTicket(duplicateOab) == ~duplicateOab

\* The order createOrder builds
NewOrder(c, ticket, duplicateOab) ==
  [uuid |-> randomUUID, ticket |-> ticket,
   numero_oab |-> Trim(arg[c].numero_oab),
   nome_completo |-> arg[c].nome_completo, subsecao |-> arg[c].subsecao,
   data_solicitacao |-> nowBR, data_liberacao |-> nowBR,
   status |-> IF duplicateOab THEN DENIED ELSE APPROVED,
   anotacoes |-> arg[c].anotacoes]

createOrder(c) ==
  \E oab \in OabInputs :
    withWriteLock(c, "createOrder",
                  [NoArg EXCEPT !.numero_oab = oab, !.nome_completo = "X"])

\* readAllOrders() has answered: the duplicate check, then either the
\* allocator's read of the tickets sheet or the append of a denied order
CO_Existing(c) ==
  /\ pc[c] = "co_read" /\ Responded(c)
  /\ IF req[c].st = "err"
     THEN /\ FinishTask(c, Failure("StoreError"))
          /\ UNCHANGED <<cacheVars, nextUuid, loc>>
     ELSE LET existing == DecodeOrders(req[c].rows)
              normalizedOab == Trim(arg[c].numero_oab)
              at == ExistingOrder(existing, normalizedOab)
              duplicateOab == at # 0
              order == NewOrder(c, "", TRUE)
          IN  /\ ordersCache' = Cached(existing)
              /\ ordersCacheTime' = now
              /\ UNCHANGED ticketCacheVars
              /\ IF AllocatesTicket(duplicateOab)
                 THEN /\ Continue(c, "at_read", GetReq("tickets"))
                      /\ loc' = [loc EXCEPT ![c].duplicateOab = duplicateOab,
                                   ![c].existing_ticket = IF at # 0 THEN existing[at].ticket ELSE "",
                                   ![c].existing_date = IF at # 0 THEN existing[at].data_solicitacao ELSE ""]
                      /\ UNCHANGED nextUuid
                 ELSE /\ Continue(c, "co_append", AppendReq("pedidos", orderToRow(order)))
                      /\ loc' = [loc EXCEPT ![c].duplicateOab = TRUE,
                                   ![c].existing_ticket = existing[at].ticket,
                                   ![c].existing_date = existing[at].data_solicitacao,
                                   ![c].order = order]
                      /\ nextUuid' = nextUuid + 1
  /\ UNCHANGED <<sheetVars, clockVars, failures, op, arg>>
  /\ UNCHANGED appVars

\* The append has answered: invalidateCache() and the result, with the
\* conflict reference when the OAB was a duplicate
CO_Appended(c) ==
  /\ pc[c] = "co_append" /\ Responded(c)
  /\ IF req[c].st = "err"
     THEN /\ FinishTask(c, Failure("StoreError"))
          /\ UNCHANGED cacheVars
     ELSE /\ FinishTask(c, [Ok EXCEPT !.order = loc[c].order,
                                      !.conflict = loc[c].duplicateOab,
                                      !.existing_ticket = loc[c].existing_ticket,
                                      !.existing_date = loc[c].existing_date])
          /\ ordersCache' = NoCache /\ ordersCacheTime' = 0
          /\ UNCHANGED ticketCacheVars
  /\ UNCHANGED <<sheetVars, clockVars, failures, nextUuid, op, arg, loc>>
  /\ UNCHANGED appVars

\* ---------------------------------------------------- the ticket allocator
\* Mutant: the status cell is not looked at
IsAvailableAnyStatus(row) == Cell(row, 1) # ""

\* (row, i) => i > 0 && row[0] && !row[1]
IsAvailable(row) == Cell(row, 1) # "" /\ Cell(row, 2) = ""

\* Mutant: the 0-based index used as the row number
MarkedRowAbove(rowIndex) == rowIndex

\* range `tickets!B${rowIndex + 1}`
MarkedRow(rowIndex) == rowIndex + 1

\* catch (err) { if (err instanceof NoTicketsError) throw err; throw new NoTicketsError() }
AllocatorError(err) == "NoTickets"

\* assignAvailableTicket: the read has answered; scan for the first available row
AT_Scan(c) ==
  /\ pc[c] = "at_read" /\ Responded(c)
  /\ IF req[c].st = "err"
     THEN /\ FinishTask(c, Failure(AllocatorError("StoreError")))
          /\ UNCHANGED loc
     ELSE LET rows == req[c].rows
              rowIndex == FindIndex({i \in DataRows(rows) : IsAvailable(rows[i])})
          IN  IF rowIndex = -1
              THEN /\ FinishTask(c, Failure(AllocatorError("NoTickets")))
                   /\ UNCHANGED loc
              ELSE /\ Continue(c, "at_mark",
                               UpdateReq("tickets", MarkedRow(rowIndex), 2, <<ASSIGNED>>))
                   /\ loc' = [loc EXCEPT ![c].found = Cell(rows[rowIndex + 1], 1)]
  /\ UNCHANGED <<sheetVars, cacheVars, clockVars, failures, nextUuid, op, arg>>
  /\ UNCHANGED appVars

\* assignAvailableTicket: the status update has answered; the Tickets cache is
\* invalidated, the ticket returned, and createOrder appends the approved order
AT_Marked(c) ==
  /\ pc[c] = "at_mark" /\ Responded(c)
  /\ IF req[c].st = "err"
     THEN /\ FinishTask(c, Failure(AllocatorError("StoreError")))
          /\ UNCHANGED <<cacheVars, nextUuid, loc>>
     ELSE LET order == NewOrder(c, loc[c].found, FALSE)
          IN  /\ ticketsCache' = NoCache /\ ticketsCacheTime' = 0
              /\ UNCHANGED orderCacheVars
              /\ Continue(c, "co_append", AppendReq("pedidos", orderToRow(order)))
              /\ loc' = [loc EXCEPT ![c].ticket = loc[c].found, ![c].order = order]
              /\ nextUuid' = nextUuid + 1
  /\ UNCHANGED <<sheetVars, clockVars, failures, op, arg>>
  /\ UNCHANGED appVars

\* deleteOrder(uuid)
UuidInputs == {"u0", "u1"}

deleteOrder(c) ==
  \E uuid \in UuidInputs :
    withWriteLock(c, "deleteOrder", [NoArg EXCEPT !.uuid = uuid])

\* deleteOrder: the fresh read has answered; resolve the row by uuid and ask the
\* store to delete it (getSheetId()'s lookup is part of the delete request)
DO_Resolve(c) ==
  /\ pc[c] = "do_read" /\ Responded(c)
  /\ IF req[c].st = "err"
     THEN FinishTask(c, Failure("StoreError"))
     ELSE LET rowIndex == FindIndex({i \in DataRows(req[c].rows) :
                                       Cell(req[c].rows[i], 1) = arg[c].uuid})
          IN  IF rowIndex = -1
              THEN FinishTask(c, Failure("NotFound"))
              ELSE Continue(c, "do_delete", DeleteReq("pedidos", rowIndex))
  /\ UNCHANGED <<sheetVars, cacheVars, clockVars, failures, nextUuid, op, arg, loc>>
  /\ UNCHANGED appVars

\* deleteOrder: the row delete has answered; invalidateCache()
DO_Deleted(c) ==
  /\ pc[c] = "do_delete" /\ Responded(c)
  /\ IF req[c].st = "err"
     THEN /\ FinishTask(c, Failure("StoreError"))
          /\ UNCHANGED cacheVars
     ELSE /\ FinishTask(c, Ok)
          /\ ordersCache' = NoCache /\ ordersCacheTime' = 0
          /\ UNCHANGED ticketCacheVars
  /\ UNCHANGED <<sheetVars, clockVars, failures, nextUuid, op, arg, loc>>
  /\ UNCHANGED appVars

\* updateOrder(uuid, data): data is a partial order without uuid; fields is the
\* set of keys whose value is present (neither undefined nor null)
UpdatableFields == {"ticket", "numero_oab", "nome_completo", "subsecao",
                    "data_solicitacao", "data_liberacao", "status", "anotacoes"}

NoData == [f \in UpdatableFields |-> ""]

DataInputs ==
  { [fields |-> {"status"}, data |-> [NoData EXCEPT !["status"] = DENIED]],
    [fields |-> {"ticket", "anotacoes"}, data |-> [NoData EXCEPT !["ticket"] = "T9"]],
    [fields |-> {"status"}, data |-> [NoData EXCEPT !["status"] = APPROVED]] }

\* Mutant: the input's value is taken whether or not the key is present
CoalesceAlways(present, value, existing) == value

\* data.f ?? existing.f
Coalesce(present, value, existing) == IF present THEN value ELSE existing

\* Mutant: the merged order is built without the existing uuid
MergedWithoutUuid(existing, fields, data) ==
  [f \in UpdatableFields \cup {"uuid"} |->
     IF f = "uuid" THEN ""
     ELSE Coalesce(f \in fields, data[f], existing[f])]

\* const updated: Order = { uuid: existing.uuid, ticket: data.ticket ?? existing.ticket, ... }
Merged(existing, fields, data) ==
  [f \in UpdatableFields \cup {"uuid"} |->
     IF f = "uuid" THEN existing.uuid
     ELSE Coalesce(f \in fields, data[f], existing[f])]

updateOrder(c) ==
  \E uuid \in UuidInputs, d \in DataInputs :
    withWriteLock(c, "updateOrder",
                  [NoArg EXCEPT !.uuid = uuid, !.fields = d.fields, !.data = d.data])

\* updateOrder: the fresh read has answered; resolve the row by uuid, merge the
\* input over it and rewrite the whole row A:I at that position
UO_Resolve(c) ==
  /\ pc[c] = "uo_read" /\ Responded(c)
  /\ IF req[c].st = "err"
     THEN /\ FinishTask(c, Failure("StoreError"))
          /\ UNCHANGED loc
     ELSE LET rows == req[c].rows
              rowIndex == FindIndex({i \in DataRows(rows) : Cell(rows[i], 1) = arg[c].uuid})
          IN  IF rowIndex = -1
              THEN /\ FinishTask(c, Failure("NotFound"))
                   /\ UNCHANGED loc
              ELSE LET updated == Merged(rowToOrder(rows[rowIndex + 1]),
                                         arg[c].fields, arg[c].data)
                   IN  /\ Continue(c, "uo_update",
                                   UpdateReq("pedidos", rowIndex + 1, 1, orderToRow(updated)))
                       /\ loc' = [loc EXCEPT ![c].order = updated]
  /\ UNCHANGED <<sheetVars, cacheVars, clockVars, failures, nextUuid, op, arg>>
  /\ UNCHANGED appVars

\* updateOrder: the update has answered; invalidateCache() and the merged order
UO_Updated(c) ==
  /\ pc[c] = "uo_update" /\ Responded(c)
  /\ IF req[c].st = "err"
     THEN /\ FinishTask(c, Failure("StoreError"))
          /\ UNCHANGED cacheVars
     ELSE /\ FinishTask(c, [Ok EXCEPT !.order = loc[c].order])
          /\ ordersCache' = NoCache /\ ordersCacheTime' = 0
          /\ UNCHANGED ticketCacheVars
  /\ UNCHANGED <<sheetVars, clockVars, failures, nextUuid, op, arg, loc>>
  /\ UNCHANGED appVars

\* limit ?? 50
DEFAULT_LIMIT == 50

\* Array.prototype.slice(start, end)
Slice(seq, start, end) ==
  LET last == IF end < Len(seq) THEN end ELSE Len(seq)
  IN  IF start >= last THEN <<>> ELSE [i \in 1..(last - start) |-> seq[start + i]]

\* Mutant: a read settles through the chain of the orders lock
FinishReadViaLock(c, r) ==
  /\ pc' = [pc EXCEPT ![c] = "done"]
  /\ req' = [req EXCEPT ![c] = NoReq]
  /\ result' = [result EXCEPT ![c] = Settle(@, r)]
  /\ outcome' = [outcome EXCEPT ![c] = r]
  /\ chain' = [chain EXCEPT !["orders"] = Append(@, c)]
  /\ UNCHANGED <<chainOk, timer>>

\* A read handler has settled with r; reads hold no lock
FinishRead(c, r) ==
  /\ pc' = [pc EXCEPT ![c] = "done"]
  /\ req' = [req EXCEPT ![c] = NoReq]
  /\ result' = [result EXCEPT ![c] = Settle(@, r)]
  /\ outcome' = [outcome EXCEPT ![c] = r]
  /\ UNCHANGED lockVars

\* String.prototype.toLowerCase over the letters that occur in the inputs
LowerOf(ch) ==
  CASE ch = "A" -> "a"
    [] ch = "R" -> "r"
    [] ch = "T" -> "t"
    [] OTHER -> ch

RECURSIVE toLowerCase(_)
toLowerCase(s) ==
  IF Len(s) = 0 THEN s
  ELSE LowerOf(SubSeq(s, 1, 1)) \o toLowerCase(SubSeq(s, 2, Len(s)))

\* if (filters.k): the key is present and its value is not the empty string
Truthy(f, k) == k \in f.given /\ f[k] # ""

\* Mutant: the status filter compares the strings as they are
StatusMatchesExactly(o, f) == o.status = f.status

\* o.status.toLowerCase() === filters.status.toLowerCase()
StatusMatches(o, f) == toLowerCase(o.status) = toLowerCase(f.status)

\* o.ticket.toLowerCase() === filters.ticket.toLowerCase()
TicketMatches(o, f) == toLowerCase(o.ticket) = toLowerCase(f.ticket)

\* o.numero_oab.trim().toLowerCase() === filters.oab.trim().toLowerCase()
OabMatches(o, f) == toLowerCase(Trim(o.numero_oab)) = toLowerCase(Trim(f.oab))

\* The three orders.filter(...) of getAllOrders, applied one after the other
FilterOrders(orders, f) ==
  LET byStatus == IF Truthy(f, "status")
                  THEN SelectSeq(orders, LAMBDA o : StatusMatches(o, f)) ELSE orders
      byTicket == IF Truthy(f, "ticket")
                  THEN SelectSeq(byStatus, LAMBDA o : TicketMatches(o, f)) ELSE byStatus
  IN  IF Truthy(f, "oab")
      THEN SelectSeq(byTicket, LAMBDA o : OabMatches(o, f)) ELSE byTicket

\* filters?.offset ?? 0
OffsetOf(f) == IF "offset" \in f.given THEN f.offset ELSE 0

\* filters?.limit ?? 50
LimitOf(f) == IF "limit" \in f.given THEN f.limit ELSE DEFAULT_LIMIT

\* { orders: orders.slice(offset, offset + limit), total }
Paginated(orders, f) ==
  LET filtered == FilterOrders(orders, f)
  IN  [orders |-> Slice(filtered, OffsetOf(f), OffsetOf(f) + LimitOf(f)),
       total |-> Len(filtered)]

\* What getAllOrders / getOrderById make of the list readAllOrders() returned
\* (orders.find(...) || null: no order is <<>>)
OrdersAnswer(o, a, orders) ==
  IF o = "getOrderById"
  THEN LET found == {i \in 1..Len(orders) : orders[i].uuid = a.uuid}
       IN  [Ok EXCEPT !.order = IF found = {} THEN <<>> ELSE orders[Min(found)]]
  ELSE [Ok EXCEPT !.data = Paginated(orders, a.filters).orders,
                  !.total = Paginated(orders, a.filters).total]

\* A read of the Orders service: readAllOrders() up to its store call, or the
\* whole read when the snapshot is served
ReadOrdersCall(c, o, a) ==
  /\ pc[c] = "idle"
  /\ \A d \in Calls : d < c => pc[d] # "idle"
  /\ op' = [op EXCEPT ![c] = o]
  /\ arg' = [arg EXCEPT ![c] = a]
  /\ IF CacheHit(ordersCache, ordersCacheTime)
     THEN FinishRead(c, OrdersAnswer(o, a, ordersCache.data))
     ELSE /\ pc' = [pc EXCEPT ![c] = "ro_read"]
          /\ req' = [req EXCEPT ![c] = GetReq("pedidos")]
          /\ UNCHANGED <<lockVars, result, outcome>>
  /\ UNCHANGED <<sheetVars, cacheVars, clockVars, failures, nextUuid, loc>>

\* The read called from outside a request
ReadOrders(c, o, a) == ReadOrdersCall(c, o, a) /\ UNCHANGED appVars

\* getAllOrders() without filters
getAllOrders(c) == ReadOrders(c, "getAllOrders", NoArg)

\* The query of GET /api/orders as orderFiltersSchema lets it through
FilterInputs ==
  { [NoFilters EXCEPT !.given = {"status"}, !.status = s] : s \in {"", "aprovado"} }
  \cup { [NoFilters EXCEPT !.given = {"ticket"}, !.ticket = "t1"] }
  \cup { [NoFilters EXCEPT !.given = {"oab"}, !.oab = b] : b \in {" 7A ", " "} }
  \cup { [NoFilters EXCEPT !.given = {"status", "oab", "limit"},
                           !.status = APPROVED, !.oab = "7a", !.limit = 1] }
  \cup { [NoFilters EXCEPT !.given = {"limit", "offset"}, !.limit = 2, !.offset = 3],
         [NoFilters EXCEPT !.given = {"offset"}, !.offset = 1],
         NoFilters }

\* getAllOrders(filters)
getAllOrdersFiltered(c) ==
  \E f \in FilterInputs :
    ReadOrders(c, "getAllOrders", [NoArg EXCEPT !.filters = f])

LookupUuids == {"u0"}

\* getOrderById(uuid)
getOrderById(c) ==
  \E uuid \in LookupUuids :
    ReadOrders(c, "getOrderById", [NoArg EXCEPT !.uuid = uuid])

\* readAllOrders(): the store has answered; the snapshot becomes the cache
RO_Loaded(c) ==
  /\ pc[c] = "ro_read" /\ Responded(c)
  /\ IF req[c].st = "err"
     THEN /\ FinishRead(c, Failure("StoreError"))
          /\ UNCHANGED cacheVars
     ELSE LET orders == DecodeOrders(req[c].rows)
          IN  /\ ordersCache' = Cached(orders)
              /\ ordersCacheTime' = now
              /\ UNCHANGED ticketCacheVars
              /\ FinishRead(c, OrdersAnswer(op[c], arg[c], orders))
  /\ UNCHANGED <<sheetVars, clockVars, failures, nextUuid, op, arg, loc>>
  /\ UNCHANGED appVars

\* ----------------------------------------------------- the Tickets service
TicketInputs == {"T1", "T3"}
NewTicketInputs == {"T2"}

\* What getAllTickets / getTicket make of the list readAllTickets() returned
\* (tickets.find(...) || null: no ticket is <<>>)
TicketsAnswer(o, a, tickets) ==
  IF o = "getTicket"
  THEN LET found == {i \in 1..Len(tickets) : tickets[i].ticket = a.ticket}
       IN  [Ok EXCEPT !.order = IF found = {} THEN <<>> ELSE tickets[Min(found)]]
  ELSE [Ok EXCEPT !.data = tickets]

\* A read of the Tickets service: readAllTickets() up to its store call, or
\* the whole read when the snapshot is served
ReadTickets(c, o, a) ==
  /\ pc[c] = "idle"
  /\ \A d \in Calls : d < c => pc[d] # "idle"
  /\ op' = [op EXCEPT ![c] = o]
  /\ arg' = [arg EXCEPT ![c] = a]
  /\ IF CacheHit(ticketsCache, ticketsCacheTime)
     THEN FinishRead(c, TicketsAnswer(o, a, ticketsCache.data))
     ELSE /\ pc' = [pc EXCEPT ![c] = "rt_read"]
          /\ req' = [req EXCEPT ![c] = GetReq("tickets")]
          /\ UNCHANGED <<lockVars, result, outcome>>
  /\ UNCHANGED <<sheetVars, cacheVars, clockVars, failures, nextUuid, loc>>
  /\ UNCHANGED appVars

\* getAllTickets()
getAllTickets(c) == ReadTickets(c, "getAllTickets", NoArg)

LookupTickets == {"T2"}

\* getTicket(ticket)
getTicket(c) ==
  \E t \in LookupTickets :
    ReadTickets(c, "getTicket", [NoArg EXCEPT !.ticket = t])

\* readAllTickets(): the store has answered; the snapshot becomes the cache
RT_Loaded(c) ==
  /\ pc[c] = "rt_read" /\ Responded(c)
  /\ IF req[c].st = "err"
     THEN /\ FinishRead(c, Failure("StoreError"))
          /\ UNCHANGED cacheVars
     ELSE LET tickets == DecodeTickets(req[c].rows)
          IN  /\ ticketsCache' = Cached(tickets)
              /\ ticketsCacheTime' = now
              /\ UNCHANGED orderCacheVars
              /\ FinishRead(c, TicketsAnswer(op[c], arg[c], tickets))
  /\ UNCHANGED <<sheetVars, clockVars, failures, nextUuid, op, arg, loc>>
  /\ UNCHANGED appVars

\* Mutant: the duplicate check is skipped
TicketExistsNever(existing, ticket) == FALSE

\* existing.some((t) => t.ticket === ticket)
TicketExists(existing, ticket) ==
  \E i \in 1..Len(existing) : existing[i].ticket = ticket

createTicket(c) ==
  \E t \in NewTicketInputs :
    withWriteLock(c, "createTicket", [NoArg EXCEPT !.ticket = t])

\* createTicket: readAllTickets() has answered; the duplicate check, then the append
CT_Existing(c) ==
  /\ pc[c] = "ct_read" /\ Responded(c)
  /\ IF req[c].st = "err"
     THEN /\ FinishTask(c, Failure("StoreError"))
          /\ UNCHANGED cacheVars
     ELSE LET existing == DecodeTickets(req[c].rows)
          IN  /\ ticketsCache' = Cached(existing)
              /\ ticketsCacheTime' = now
              /\ UNCHANGED orderCacheVars
              /\ IF TicketExists(existing, arg[c].ticket)
                 THEN FinishTask(c, Failure("Conflict"))
                 ELSE Continue(c, "ct_append", AppendReq("tickets", <<arg[c].ticket, "">>))
  /\ UNCHANGED <<sheetVars, clockVars, failures, nextUuid, op, arg, loc>>
  /\ UNCHANGED appVars

\* createTicket: the append has answered; invalidateCache()
CT_Appended(c) ==
  /\ pc[c] = "ct_append" /\ Responded(c)
  /\ IF req[c].st = "err"
     THEN /\ FinishTask(c, Failure("StoreError"))
          /\ UNCHANGED cacheVars
     ELSE /\ FinishTask(c, [Ok EXCEPT !.data = <<[ticket |-> arg[c].ticket, status |-> ""]>>])
          /\ ticketsCache' = NoCache /\ ticketsCacheTime' = 0
          /\ UNCHANGED orderCacheVars
  /\ UNCHANGED <<sheetVars, clockVars, failures, nextUuid, op, arg, loc>>
  /\ UNCHANGED appVars

updateTicket(c) ==
  \E old \in TicketInputs, new \in NewTicketInputs :
    withWriteLock(c, "updateTicket", [NoArg EXCEPT !.ticket = old, !.newTicket = new])

\* Mutant: the rename writes the row below the one it resolved
RenamedRowBelow(rowIndex) == rowIndex + 2

\* range `tickets!A${rowIndex + 1}`
RenamedRow(rowIndex) == rowIndex + 1

\* Mutant: the rename writes the ticket with an empty status
RenameValuesWithStatus(newTicket) == <<newTicket, "">>

\* requestBody: { values: [[newTicket]] }
RenameValues(newTicket) == <<newTicket>>

\* updateTicket: the fresh read has answered; resolve the row by ticket value
\* and overwrite its ticket cell
UT_Resolve(c) ==
  /\ pc[c] = "ut_read" /\ Responded(c)
  /\ IF req[c].st = "err"
     THEN /\ FinishTask(c, Failure("StoreError"))
          /\ UNCHANGED loc
     ELSE LET rows == req[c].rows
              rowIndex == FindIndex({i \in DataRows(rows) : Cell(rows[i], 1) = arg[c].ticket})
          IN  IF rowIndex = -1
              THEN /\ FinishTask(c, Failure("NotFound"))
                   /\ UNCHANGED loc
              ELSE /\ Continue(c, "ut_update",
                               UpdateReq("tickets", RenamedRow(rowIndex), 1,
                                         RenameValues(arg[c].newTicket)))
                   /\ loc' = [loc EXCEPT ![c].currentStatus = Cell(rows[rowIndex + 1], 2)]
  /\ UNCHANGED <<sheetVars, cacheVars, clockVars, failures, nextUuid, op, arg>>
  /\ UNCHANGED appVars

\* updateTicket: the update has answered; invalidateCache()
UT_Updated(c) ==
  /\ pc[c] = "ut_update" /\ Responded(c)
  /\ IF req[c].st = "err"
     THEN /\ FinishTask(c, Failure("StoreError"))
          /\ UNCHANGED cacheVars
     ELSE /\ FinishTask(c, [Ok EXCEPT !.data = <<[ticket |-> arg[c].newTicket,
                                                  status |-> loc[c].currentStatus]>>])
          /\ ticketsCache' = NoCache /\ ticketsCacheTime' = 0
          /\ UNCHANGED orderCacheVars
  /\ UNCHANGED <<sheetVars, clockVars, failures, nextUuid, op, arg, loc>>
  /\ UNCHANGED appVars

deleteTicket(c) ==
  \E t \in TicketInputs :
    withWriteLock(c, "deleteTicket", [NoArg EXCEPT !.ticket = t])

\* deleteTicket: the fresh read has answered; resolve the row by ticket value and
\* ask the store to delete it (getSheetId()'s lookup is part of the delete request)
DT_Resolve(c) ==
  /\ pc[c] = "dt_read" /\ Responded(c)
  /\ IF req[c].st = "err"
     THEN FinishTask(c, Failure("StoreError"))
     ELSE LET rowIndex == FindIndex({i \in DataRows(req[c].rows) :
                                       Cell(req[c].rows[i], 1) = arg[c].ticket})
          IN  IF rowIndex = -1
              THEN FinishTask(c, Failure("NotFound"))
              ELSE Continue(c, "dt_delete", DeleteReq("tickets", rowIndex))
  /\ UNCHANGED <<sheetVars, cacheVars, clockVars, failures, nextUuid, op, arg, loc>>
  /\ UNCHANGED appVars

\* deleteTicket: the row delete has answered; invalidateCache()
DT_Deleted(c) ==
  /\ pc[c] = "dt_delete" /\ Responded(c)
  /\ IF req[c].st = "err"
     THEN /\ FinishTask(c, Failure("StoreError"))
          /\ UNCHANGED cacheVars
     ELSE /\ FinishTask(c, Ok)
          /\ ticketsCache' = NoCache /\ ticketsCacheTime' = 0
          /\ UNCHANGED orderCacheVars
  /\ UNCHANGED <<sheetVars, clockVars, failures, nextUuid, op, arg, loc>>
  /\ UNCHANGED appVars

\* ------------------------------------------------------- specifications
\* ------------------------------------------------------------ the HTTP layer
WINDOW_MS == 60000
MAX_REQUESTS == 100
AUTH_FAIL_WINDOW_MS == 900000
MAX_AUTH_FAILURES == 5

\* getClientKey(req): req.ip || req.socket.remoteAddress || "unknown"
Keys == {"k1", "k2"}

\* requests.get(key) is undefined
NoEntry == [present |-> FALSE, count |-> 0, windowStart |-> 0,
            authFailures |-> 0, authFailStart |-> 0]

\* { count: 0, windowStart: now, authFailures: 0, authFailStart: now }
NewEntry(t) == [present |-> TRUE, count |-> 0, windowStart |-> t,
                authFailures |-> 0, authFailStart |-> t]

OrderRoutes == {"GET /api/orders", "GET /api/orders/:uuid", "POST /api/orders",
                "PATCH /api/orders/:uuid", "DELETE /api/orders/:uuid"}
TicketRoutes == {"GET /api/tickets", "GET /api/tickets/:ticket", "POST /api/tickets",
                 "PUT /api/tickets/:ticket", "DELETE /api/tickets/:ticket"}
ApiRoutes == OrderRoutes \cup TicketRoutes
Routes == ApiRoutes \cup {"GET /health", "GET /docs", "GET /other"}

\* The service operation a route handler awaits
ServiceOp(route) ==
  CASE route = "GET /api/orders" -> "getAllOrders"
    [] route = "GET /api/orders/:uuid" -> "getOrderById"
    [] route = "POST /api/orders" -> "createOrder"
    [] route = "PATCH /api/orders/:uuid" -> "updateOrder"
    [] route = "DELETE /api/orders/:uuid" -> "deleteOrder"
    [] route = "GET /api/tickets" -> "getAllTickets"
    [] route = "GET /api/tickets/:ticket" -> "getTicket"
    [] route = "POST /api/tickets" -> "createTicket"
    [] route = "PUT /api/tickets/:ticket" -> "updateTicket"
    [] OTHER -> "deleteTicket"

\* The ways a service operation settles: its return values ("null": no such
\* entity, "conflict": the denied order with conflict data) and its errors
\* ("Error": a plain Error such as a store failure, "StatusError": an error
\* that carries a status field, as the store client's HTTP errors do)
Outcomes(o) ==
  CASE o \in {"getAllOrders", "getAllTickets"} -> {"ok", "Error", "StatusError"}
    [] o \in {"getOrderById", "getTicket"} -> {"ok", "null", "Error", "StatusError"}
    [] o = "createOrder" ->
         {"ok", "conflict", "NoTicketsError", "TimeoutError", "Error", "StatusError"}
    [] o = "createTicket" -> {"ok", "ConflictError", "TimeoutError", "Error", "StatusError"}
    [] OTHER -> {"ok", "NotFoundError", "TimeoutError", "Error", "StatusError"}

NoError == [kind |-> "", app |-> FALSE, statusCode |-> 0, status |-> 0, message |-> ""]

\* The error object thrown: AppError and its subclasses carry statusCode
\* (errors.ts), other errors at most a status field
ErrorOf(kind, o) ==
  CASE kind = "NotFoundError" ->
         [NoError EXCEPT !.kind = kind, !.app = TRUE, !.statusCode = 404,
                         !.message = IF o \in {"updateOrder", "deleteOrder"} THEN "Order not found"
                                     ELSE "Ticket not found"]
    [] kind = "ConflictError" ->
         [NoError EXCEPT !.kind = kind, !.app = TRUE, !.statusCode = 409,
                         !.message = "Ticket already exists"]
    [] kind = "NoTicketsError" ->
         [NoError EXCEPT !.kind = kind, !.app = TRUE, !.statusCode = 422,
                         !.message = "No available tickets"]
    [] kind = "TimeoutError" ->
         [NoError EXCEPT !.kind = kind, !.app = TRUE, !.statusCode = 503,
                         !.message = "Write operation timed out"]
    [] kind = "StatusError" ->
         [NoError EXCEPT !.kind = kind, !.status = 403, !.message = "Forbidden"]
    [] OTHER -> [NoError EXCEPT !.kind = kind, !.message = "failed"]

NoHttp == [stage |-> "idle", key |-> "", route |-> "", https |-> FALSE,
           credentials |-> "", body |-> "", trail |-> <<>>, status |-> 0,
           service |-> "none", settled |-> "", error |-> NoError, carries |-> {}]

\* res.status(status).json(...): the request is answered
Respond(status, carries) ==
  http' = [http EXCEPT !.stage = "responded", !.status = status, !.carries = carries]

\* next(): the middleware lets the request on to the next stage
PassOn(middleware, stage) ==
  http' = [http EXCEPT !.stage = stage, !.trail = Append(@, middleware)]

\* The server is between the synchronous runs of its handlers: time can pass
\* and timers can fire
Idle == http.stage \in {"idle", "responded", "service"}

\* A request arrives; body is "valid", "invalid" (refused by the route's
\* schema) or "unparsable", credentials "valid", "wrong" or "none"
NewRequest(k, route, https, credentials, body) ==
  /\ http.stage \in {"idle", "responded"}
  /\ http' = [NoHttp EXCEPT !.stage = "json", !.key = k, !.route = route,
                            !.https = https, !.credentials = credentials,
                            !.body = body]
  /\ UNCHANGED <<requests, production, elapses, passed, now, serviceVars>>

\* app.use(express.json({ limit: "10kb" })): a body that does not parse goes
\* to the error handler with the parser's own status
jsonParser ==
  /\ http.stage = "json"
  /\ IF http.body = "unparsable"
     THEN http' = [http EXCEPT !.stage = "errorHandler",
                               !.error = [NoError EXCEPT !.kind = "StatusError",
                                                         !.status = 400,
                                                         !.message = "Unexpected token"]]
     ELSE PassOn("json", "rateLimiter")
  /\ UNCHANGED <<requests, production, elapses, passed, now, serviceVars>>

\* The requests of key k that rateLimiter passed on at time t
PassedAt(k, t) ==
  IF \E p \in passed[k] : p[1] = t THEN (CHOOSE p \in passed[k] : p[1] = t)[2] ELSE 0

\* now - data.windowStart > WINDOW_MS
WindowOver(data) == now - data.windowStart > WINDOW_MS

\* Mutant: the request after the hundredth still passes
OverLimitLate(data) == data.count > MAX_REQUESTS + 1

\* data.count > MAX_REQUESTS
OverLimit(data) == data.count > MAX_REQUESTS

\* rateLimiter(req, res, next)
rateLimiter ==
  /\ http.stage = "rateLimiter"
  /\ LET k == http.key
         created == IF requests[k].present THEN requests[k] ELSE NewEntry(now)
         current == IF WindowOver(created)
                    THEN [created EXCEPT !.count = 0, !.windowStart = now]
                    ELSE created
         data == [current EXCEPT !.count = @ + 1]
     IN  /\ requests' = [requests EXCEPT ![k] = data]
         /\ IF OverLimit(data)
            THEN /\ Respond(429, {})
                 /\ UNCHANGED passed
            ELSE /\ PassOn("rateLimiter", IF production THEN "httpsOnly" ELSE "routing")
                 /\ passed' = [passed EXCEPT ![k] =
                                 {p \in @ : p[1] # now} \cup {<<now, PassedAt(k, now) + 1>>}]
  /\ UNCHANGED <<production, elapses, now, serviceVars>>

\* HTTPS enforcement in production
httpsOnly ==
  /\ http.stage = "httpsOnly"
  /\ IF ~http.https THEN Respond(403, {}) ELSE PassOn("httpsOnly", "routing")
  /\ UNCHANGED <<requests, production, elapses, passed, now, serviceVars>>

\* The routes registered on the app: docs (behind basicAuth in production),
\* health, the two API routers behind authRateLimiter and basicAuth, and the
\* 404 handler
routing ==
  /\ http.stage = "routing"
  /\ CASE http.route = "GET /docs" ->
            IF production THEN http' = [http EXCEPT !.stage = "basicAuth"]
            ELSE Respond(200, {})
       [] http.route = "GET /health" -> Respond(200, {})
       [] http.route \in ApiRoutes -> http' = [http EXCEPT !.stage = "authRateLimiter"]
       [] OTHER -> Respond(404, {})
  /\ UNCHANGED <<requests, production, elapses, passed, now, serviceVars>>

\* now - data.authFailStart > AUTH_FAIL_WINDOW_MS
FailWindowOver(data) == now - data.authFailStart > AUTH_FAIL_WINDOW_MS

\* isAuthBlocked(req): its return value
isAuthBlocked(data) ==
  data.present /\ ~FailWindowOver(data) /\ data.authFailures >= MAX_AUTH_FAILURES

\* isAuthBlocked(req): the entry it leaves (the window reset)
AfterIsAuthBlocked(data) ==
  IF data.present /\ FailWindowOver(data)
  THEN [data EXCEPT !.authFailures = 0, !.authFailStart = now]
  ELSE data

\* authRateLimiter(req, res, next)
authRateLimiter ==
  /\ http.stage = "authRateLimiter"
  /\ requests' = [requests EXCEPT ![http.key] = AfterIsAuthBlocked(@)]
  /\ IF isAuthBlocked(requests[http.key])
     THEN Respond(429, {})
     ELSE PassOn("authRateLimiter", "basicAuth")
  /\ UNCHANGED <<production, elapses, passed, now, serviceVars>>

\* Mutant: the failure is not counted
trackAuthFailureNot(data) == data

\* trackAuthFailure(req): the entry it leaves
trackAuthFailure(data) ==
  LET created == IF data.present THEN data ELSE NewEntry(now)
      current == IF FailWindowOver(created)
                 THEN [created EXCEPT !.authFailures = 0, !.authFailStart = now]
                 ELSE created
  IN  [current EXCEPT !.authFailures = @ + 1]

\* basicAuth(req, res, next); every refusal goes through authError
basicAuth ==
  /\ http.stage = "basicAuth"
  /\ IF http.credentials = "valid"
     THEN /\ PassOn("basicAuth", "handler")
          /\ UNCHANGED requests
     ELSE /\ requests' = [requests EXCEPT ![http.key] = trackAuthFailure(@)]
          /\ Respond(401, {})
  /\ UNCHANGED <<production, elapses, passed, now, serviceVars>>

\* The routes whose handler checks its input with a schema before the service
Validating == OrderRoutes \cup {"POST /api/tickets", "PUT /api/tickets/:ticket"}

\* A route handler up to its await of the service (the docs handler answers
\* at once)
handler ==
  /\ http.stage = "handler"
  /\ IF http.route = "GET /docs" THEN Respond(200, {})
     ELSE IF http.route \in Validating /\ http.body = "invalid" THEN Respond(400, {})
     ELSE http' = [http EXCEPT !.stage = "service", !.service = ServiceOp(http.route)]
  /\ UNCHANGED <<requests, production, elapses, passed, now, serviceVars>>

\* The status a route handler answers with when the service returns
ReturnStatus(route, settled) ==
  CASE settled = "null" -> 404
    [] settled = "conflict" -> 409
    [] route \in {"POST /api/orders", "POST /api/tickets"} -> 201
    [] route = "DELETE /api/orders/:uuid" -> 204
    [] OTHER -> 200

\* The catch block of the tickets routes: the status by the error's message
TicketCatchStatus(route, message) ==
  CASE route = "POST /api/tickets" -> IF message = "Ticket already exists" THEN 409 ELSE 500
    [] route \in {"PUT /api/tickets/:ticket", "DELETE /api/tickets/:ticket"} ->
         IF message = "Ticket not found" THEN 404 ELSE 500
    [] OTHER -> 500

\* The awaited service call settles and the route handler goes on: it answers,
\* or (orders routes) hands the error to next(err)
serviceSettles ==
  /\ http.stage = "service"
  /\ \E settled \in Outcomes(http.service) :
       IF settled \in {"ok", "null", "conflict"}
       THEN http' = [http EXCEPT !.stage = "responded", !.settled = settled,
                                 !.status = ReturnStatus(http.route, settled),
                                 !.carries = IF settled = "conflict"
                                             THEN {"data", "existing_ticket", "existing_date"}
                                             ELSE IF settled = "ok" /\ ReturnStatus(http.route, settled) # 204
                                             THEN {"data"} ELSE {}]
       ELSE IF http.route \in OrderRoutes
       THEN http' = [http EXCEPT !.stage = "errorHandler", !.settled = settled,
                                 !.error = ErrorOf(settled, http.service)]
       ELSE http' = [http EXCEPT !.stage = "responded", !.settled = settled,
                                 !.error = ErrorOf(settled, http.service),
                                 !.status = TicketCatchStatus(http.route,
                                              ErrorOf(settled, http.service).message)]
  /\ UNCHANGED <<requests, production, elapses, passed, now, serviceVars>>

\* Mutant: every error is answered 500
ErrorStatusAlways500(err) == 500

\* err instanceof AppError ? err.statusCode : err.status || 500
ErrorStatus(err) ==
  IF err.app THEN err.statusCode ELSE IF err.status # 0 THEN err.status ELSE 500

\* The global error handler
errorHandler ==
  /\ http.stage = "errorHandler"
  /\ Respond(ErrorStatus(http.error), {})
  /\ UNCHANGED <<requests, production, elapses, passed, now, serviceVars>>

\* Time passes by d ms; what rateLimiter passed on more than WINDOW_MS ago is
\* forgotten
Elapse(d) ==
  /\ Idle
  /\ now' = now + d
  /\ elapses' = elapses + 1
  /\ passed' = [k \in Keys |-> {p \in passed[k] : now + d - p[1] <= WINDOW_MS}]
  /\ UNCHANGED <<requests, production, http, serviceVars>>

\* now - data.windowStart > Math.max(WINDOW_MS, AUTH_FAIL_WINDOW_MS)
Expired(data) == now - data.windowStart > Max({WINDOW_MS, AUTH_FAIL_WINDOW_MS})

\* The setInterval callback that cleans the map (not armed on Vercel)
cleanup ==
  /\ Idle
  /\ requests' = [k \in Keys |->
                    IF requests[k].present /\ Expired(requests[k]) THEN NoEntry
                    ELSE requests[k]]
  /\ UNCHANGED <<production, http, elapses, passed, now, serviceVars>>

StoreStep(c) == StoreExec(c) \/ StoreFail(c)

\* Both services within one timeout period (the clock stands still): every
\* operation that reads or writes the tickets sheet, with the creates, deletes
\* and reads of orders (updateOrder runs under SpecWrites)
Next ==
  \E c \in Calls :
    \/ createOrder(c)
    \/ deleteOrder(c)
    \/ getAllOrders(c)
    \/ createTicket(c)
    \/ updateTicket(c)
    \/ deleteTicket(c)
    \/ getAllTickets(c)
    \/ StartTask(c)
    \/ StoreStep(c)
    \/ CO_Existing(c)
    \/ AT_Scan(c)
    \/ AT_Marked(c)
    \/ CO_Appended(c)
    \/ DO_Resolve(c)
    \/ DO_Deleted(c)
    \/ RO_Loaded(c)
    \/ CT_Existing(c)
    \/ CT_Appended(c)
    \/ UT_Resolve(c)
    \/ UT_Updated(c)
    \/ DT_Resolve(c)
    \/ DT_Deleted(c)
    \/ RT_Loaded(c)

Spec == Init /\ [][Next]_vars

\* The Orders service (with the allocator) under a running clock
NextOrders ==
  \/ \E c \in Calls :
       \/ createOrder(c)
       \/ deleteOrder(c)
       \/ getAllOrders(c)
       \/ StartTask(c)
       \/ StoreStep(c)
       \/ CO_Existing(c)
       \/ AT_Scan(c)
       \/ AT_Marked(c)
       \/ CO_Appended(c)
       \/ DO_Resolve(c)
       \/ DO_Deleted(c)
       \/ RO_Loaded(c)
       \/ TimerFire(c)
  \/ Tick

SpecOrders == Init /\ [][NextOrders]_vars

\* Order creation alone under a running clock: no other writer of either sheet
NextCreate ==
  \/ \E c \in Calls :
       \/ createOrder(c)
       \/ StartTask(c)
       \/ StoreStep(c)
       \/ CO_Existing(c)
       \/ AT_Scan(c)
       \/ AT_Marked(c)
       \/ CO_Appended(c)
       \/ TimerFire(c)
  \/ Tick

SpecCreate == Init /\ [][NextCreate]_vars

\* Order creation from tickets sheets that hold a row without a ticket value
\* and a row without a status cell
InitAllocator ==
  /\ ticketsSheet \in
       { <<TicketsHeader, <<"", "">>, <<"T1", ASSIGNED>>, <<"T2">>, <<"T3", "">> >>,
         <<TicketsHeader, <<"", "">>, <<"T1", ASSIGNED>> >> }
  /\ ordersSheet = <<OrdersHeader>>
  /\ InitProgram

SpecAllocator == InitAllocator /\ [][NextCreate]_vars

\* The writes addressed by identifier (and createTicket) of both services, from
\* sheets that hold several rows; the clock stands still
InitWrites ==
  /\ ticketsSheet \in
       { <<TicketsHeader, <<"T1", ASSIGNED>>, <<"T2", "">>, <<"T3", "">> >>,
         <<TicketsHeader, <<"T1", ASSIGNED>>, <<"T3", "">> >> }
  /\ ordersSheet = <<OrdersHeader,
                      <<"u0", "T1", "7 ", "A", "", "0", "0", APPROVED, "n">>,
                      <<"u1", "", "7", "B", "s", "1", "1", DENIED>> >>
  /\ InitProgram

NextWrites ==
  \E c \in Calls :
    \/ updateOrder(c)
    \/ deleteOrder(c)
    \/ createTicket(c)
    \/ updateTicket(c)
    \/ deleteTicket(c)
    \/ StartTask(c)
    \/ StoreStep(c)
    \/ UO_Resolve(c)
    \/ UO_Updated(c)
    \/ DO_Resolve(c)
    \/ DO_Deleted(c)
    \/ CT_Existing(c)
    \/ CT_Appended(c)
    \/ UT_Resolve(c)
    \/ UT_Updated(c)
    \/ DT_Resolve(c)
    \/ DT_Deleted(c)

SpecWrites == InitWrites /\ [][NextWrites]_vars

\* The cached reads of both services under a running clock, with one writer of
\* each sheet
NextReads ==
  \/ \E c \in Calls :
       \/ getAllOrders(c)
       \/ getAllTickets(c)
       \/ deleteOrder(c)
       \/ createTicket(c)
       \/ StartTask(c)
       \/ StoreStep(c)
       \/ RO_Loaded(c)
       \/ RT_Loaded(c)
       \/ DO_Resolve(c)
       \/ DO_Deleted(c)
       \/ CT_Existing(c)
       \/ CT_Appended(c)
       \/ TimerFire(c)
  \/ Tick

SpecReads == Init /\ [][NextReads]_vars

\* Every read of both services (list and get) under a running clock, with a
\* writer of the orders sheet
NextLookups ==
  \/ \E c \in Calls :
       \/ getAllOrders(c)
       \/ getOrderById(c)
       \/ getAllTickets(c)
       \/ getTicket(c)
       \/ deleteOrder(c)
       \/ StartTask(c)
       \/ StoreStep(c)
       \/ RO_Loaded(c)
       \/ RT_Loaded(c)
       \/ DO_Resolve(c)
       \/ DO_Deleted(c)
       \/ TimerFire(c)
  \/ Tick

SpecLookups == Init /\ [][NextLookups]_vars

\* The number of order rows of the long sheet: one more than the default limit
LongSheetRows == DEFAULT_LIMIT + 1

\* Orders sheets for the listing: a short one whose cells differ in case and
\* in surrounding spaces, and one longer than the default page
InitListSheets ==
  { <<OrdersHeader,
      <<"u0", "T1", "7a ", "A", "", "0", "0", APPROVED, "">>,
      <<"u1", "", " 7A", "B", "", "1", "1", DENIED, "">>,
      <<"u2", "t1", "8", "C", "", "2", "2", "aprovado", "">>,
      <<"u3", "T2", "", "D", "", "3", "3", "", "">> >>,
    [i \in 1..(LongSheetRows + 1) |->
       IF i = 1 THEN OrdersHeader
       ELSE <<ToString(i), "T1", "7a", "N", "", "0", "0",
              IF i % 2 = 0 THEN APPROVED ELSE DENIED, "">>] }

InitList ==
  /\ ticketsSheet = <<TicketsHeader>>
  /\ ordersSheet \in InitListSheets
  /\ InitProgram

\* The listing of orders with filters and pagination; the clock stands still
\* and the store answers
NextList ==
  \E c \in Calls :
    \/ getAllOrdersFiltered(c)
    \/ StoreExec(c)
    \/ RO_Loaded(c)

SpecList == InitList /\ [][NextList]_vars

\* ------------------------------------------------- the app: the rate limiter
MaxOtherBurst == 1

\* The app alone: the services are not called, the sheets stay as they are
InitRate ==
  /\ ticketsSheet = <<TicketsHeader>>
  /\ ordersSheet = <<OrdersHeader>>
  /\ InitProgram

\* Requests to /health: "k1" up to the limit and two beyond, "k2" a few
RateRequest ==
  \E k \in Keys :
    /\ requests[k].count <= (IF k = "k1" THEN MAX_REQUESTS + 1 ELSE MaxOtherBurst)
    /\ NewRequest(k, "GET /health", TRUE, "none", "valid")

\* The clock readings of the requests: a window apart, then a millisecond later
RateSteps == <<WINDOW_MS, 1>>

RateElapse == elapses < Len(RateSteps) /\ Elapse(RateSteps[elapses + 1])

NextRate ==
  \/ RateRequest
  \/ jsonParser
  \/ rateLimiter
  \/ routing
  \/ RateElapse

SpecRate == InitRate /\ [][NextRate]_vars

\* ------------------------------------------- the app: authentication failures
MaxApiBurst == 6

\* Development or production, fixed at start
InitServer ==
  /\ ticketsSheet = <<TicketsHeader>>
  /\ ordersSheet = <<OrdersHeader>>
  /\ InitServices /\ InitApp
  /\ production \in BOOLEAN

\* Requests of "k1" with any credentials to the open routes and to one route
\* of each router; "k2" asks for tickets with a wrong password
AuthRequest ==
  \/ \E route \in {"GET /health", "GET /docs", "POST /api/orders", "GET /api/tickets"},
        credentials \in {"valid", "wrong", "none"}, https \in {TRUE, ~production} :
       /\ requests["k1"].count < MaxApiBurst
       /\ NewRequest("k1", route, https, credentials, "valid")
  \/ /\ requests["k2"].count < MaxOtherBurst
     /\ NewRequest("k2", "GET /api/tickets", TRUE, "wrong", "valid")

\* The clock readings of the requests: a failure window apart, a millisecond
\* later, and a failure window after that
AuthSteps == <<AUTH_FAIL_WINDOW_MS, 1, AUTH_FAIL_WINDOW_MS>>

AuthElapse == elapses < Len(AuthSteps) /\ Elapse(AuthSteps[elapses + 1])

NextAuth ==
  \/ AuthRequest
  \/ jsonParser
  \/ rateLimiter
  \/ httpsOnly
  \/ routing
  \/ authRateLimiter
  \/ basicAuth
  \/ handler
  \/ serviceSettles
  \/ errorHandler
  \/ AuthElapse
  \/ cleanup

SpecAuth == InitServer /\ [][NextAuth]_vars

\* ------------------------------------------------ the app: the route handlers
\* Every route with every kind of body, with and without credentials
RouteRequest ==
  \E route \in Routes, credentials \in {"valid", "none"},
     body \in {"valid", "invalid", "unparsable"} :
    /\ requests["k1"].count < MaxApiBurst
    /\ NewRequest("k1", route, TRUE, credentials, body)

NextRoutes ==
  \/ RouteRequest
  \/ jsonParser
  \/ rateLimiter
  \/ routing
  \/ authRateLimiter
  \/ basicAuth
  \/ handler
  \/ serviceSettles
  \/ errorHandler

SpecRoutes == InitRate /\ [][NextRoutes]_vars

\* ------------------------------------------------ the writes of the Orders service
\* createOrder, updateOrder and deleteOrder together; the clock stands still
NextOrderRows ==
  \E c \in Calls :
    \/ createOrder(c)
    \/ updateOrder(c)
    \/ deleteOrder(c)
    \/ StartTask(c)
    \/ StoreStep(c)
    \/ CO_Existing(c)
    \/ AT_Scan(c)
    \/ AT_Marked(c)
    \/ CO_Appended(c)
    \/ UO_Resolve(c)
    \/ UO_Updated(c)
    \/ DO_Resolve(c)
    \/ DO_Deleted(c)

SpecOrderRows == Init /\ [][NextOrderRows]_vars

\* ------------------------------------------------------ the header rows
\* A tickets sheet whose header has no status cell, and the usual header
InitHeader ==
  /\ ticketsSheet \in { << <<"ticket">>, <<"T1", ASSIGNED>>, <<"T2", "">> >>,
                         <<TicketsHeader, <<"T1", ASSIGNED>> >> }
  /\ ordersSheet = <<OrdersHeader, <<"u0", "T1", "7 ", "A", "", "0", "0", APPROVED, "">> >>
  /\ InitProgram

\* Identifiers of the calls: the text of the header cell, and a row's value
HeaderUuids == {"uuid", "u0"}
HeaderTickets == {"ticket", "T2"}

\* Every operation that resolves a row by identifier or scans the sheet,
\* called with the header cell's text as identifier; the store answers
NextHeader ==
  \E c \in Calls :
    \/ withWriteLock(c, "updateOrder",
                     [NoArg EXCEPT !.uuid = "uuid", !.fields = {"status"},
                                   !.data = [NoData EXCEPT !["status"] = DENIED]])
    \/ \E uuid \in HeaderUuids :
         withWriteLock(c, "deleteOrder", [NoArg EXCEPT !.uuid = uuid])
    \/ withWriteLock(c, "updateTicket", [NoArg EXCEPT !.ticket = "ticket", !.newTicket = "T9"])
    \/ \E t \in HeaderTickets :
         withWriteLock(c, "deleteTicket", [NoArg EXCEPT !.ticket = t])
    \/ withWriteLock(c, "createOrder", [NoArg EXCEPT !.nome_completo = "X"])
    \/ ReadOrders(c, "getOrderById", [NoArg EXCEPT !.uuid = "uuid"])
    \/ ReadTickets(c, "getTicket", [NoArg EXCEPT !.ticket = "ticket"])
    \/ getAllOrders(c)
    \/ getAllTickets(c)
    \/ StartTask(c)
    \/ StoreExec(c)
    \/ CO_Existing(c)
    \/ AT_Scan(c)
    \/ AT_Marked(c)
    \/ CO_Appended(c)
    \/ UO_Resolve(c)
    \/ DO_Resolve(c)
    \/ DO_Deleted(c)
    \/ UT_Resolve(c)
    \/ DT_Resolve(c)
    \/ DT_Deleted(c)
    \/ RO_Loaded(c)
    \/ RT_Loaded(c)

SpecHeader == InitHeader /\ [][NextHeader]_vars

\* ------------------------------------------------------------------ claims
IsWrite(c) == op[c] \in WriteOps
Started(c) == pc[c] \notin {"idle", "queued"}
Running(c) == IsWrite(c) /\ pc[c] \notin {"idle", "queued", "done"}
\* Calls are numbered in the order they are made, so on one lock d was
\* enqueued before c exactly when d < c
EnqueuedBefore(d, c) == IsWrite(d) /\ IsWrite(c) /\ d < c /\ LockOf(op[d]) = LockOf(op[c])
IsCreate(c) == op[c] = "createOrder"

\* C1: on one lock a task has started (and so issues store mutations) only
\* when every task enqueued before it on that lock has settled; hence tasks
\* start in enqueue order and no two tasks of one lock are ever in progress
\* together.
C1_TasksRunInEnqueueOrder ==
  \A c, d \in Calls :
    (EnqueuedBefore(d, c) /\ Started(c)) => pc[d] = "done"

\* C1 witness: a lock with one task settled, the next in progress (it has a
\* store request in flight) and a third still waiting behind it.
C1_Witness ==
  \E c, d, e \in Calls :
    /\ EnqueuedBefore(c, d) /\ EnqueuedBefore(d, e)
    /\ pc[c] = "done" /\ Running(d) /\ req[d].st = "sent" /\ pc[e] = "queued"

IsFailure(r) == r.kind \notin {"pending", "ok"}

\* C2: a task's failure settles the promise of its own call and no other,
\* and it never wedges the lock: a waiting task whose predecessors have all
\* settled (failed or not) can start, and every settled task has delivered
\* a settlement to its caller.
C2_FailureDoesNotWedgeLock ==
  \A c \in Calls :
    IsWrite(c) =>
      /\ (pc[c] = "queued" /\ \A d \in Calls : EnqueuedBefore(d, c) => pc[d] = "done")
           => ENABLED StartTask(c)
      /\ pc[c] = "done" => result[c].kind # "pending"
      /\ pc[c] # "done" => (outcome[c].kind = "pending"
                             /\ result[c].kind \in {"pending", "WriteTimeout"})

\* C2 witness: a task failed, its caller got that failure, and a task
\* enqueued after it on the same lock ran and delivered its own success.
C2_Witness ==
  \E c, d \in Calls :
    /\ EnqueuedBefore(c, d)
    /\ pc[c] = "done" /\ IsFailure(outcome[c]) /\ result[c] = outcome[c]
    /\ pc[d] = "done" /\ outcome[d].kind = "ok" /\ result[d] = outcome[d]

\* C3: with createOrder the only writer, the allocator never returns the same
\* ticket value to two calls.
C3_AllocatedTicketsDistinct ==
  \A c, d \in Calls :
    (c # d /\ IsCreate(c) /\ IsCreate(d) /\ loc[c].ticket # "" /\ loc[d].ticket # "")
      => loc[c].ticket # loc[d].ticket

\* C3 witness: the allocator has returned tickets to two calls.
C3_Witness ==
  \E c, d \in Calls :
    c # d /\ IsCreate(c) /\ IsCreate(d) /\ loc[c].ticket # "" /\ loc[d].ticket # ""

\* The initial orders sheet holds no order with normalized OAB n
NoEarlierOrder(n) ==
  \A i \in 2..Len(ordersSheet) :
    Cell(ordersSheet[i], 1) = "u0" => Trim(Cell(ordersSheet[i], 3)) # n

\* Calls c and d are the two createOrder calls made with the same non-empty
\* OAB, no earlier order has it, and both have returned an order
TwoCreatesSameOab(c, d) ==
  /\ c # d /\ IsCreate(c) /\ IsCreate(d)
  /\ Trim(arg[c].numero_oab) # ""
  /\ Trim(arg[c].numero_oab) = Trim(arg[d].numero_oab)
  /\ NoEarlierOrder(Trim(arg[c].numero_oab))
  /\ \A e \in Calls \ {c, d} :
       IsCreate(e) => Trim(arg[e].numero_oab) # Trim(arg[c].numero_oab)
  /\ outcome[c].kind = "ok" /\ outcome[d].kind = "ok"

GrantedOrder(o) == o.ticket # "" /\ o.status = APPROVED
DeniedOrder(o) == o.ticket = "" /\ o.status = DENIED

\* C4: two createOrder calls with the same non-empty OAB (none earlier) that
\* both return an order leave exactly one order with a ticket and "Aprovado"
\* and the other with no ticket and "Recusado", both rows being in the sheet.
C4_OneGrantedOneDenied ==
  \A c, d \in Calls :
    TwoCreatesSameOab(c, d) =>
      /\ \/ GrantedOrder(outcome[c].order) /\ DeniedOrder(outcome[d].order)
         \/ DeniedOrder(outcome[c].order) /\ GrantedOrder(outcome[d].order)
      /\ \A e \in {c, d} :
           \E i \in 2..Len(ordersSheet) : ordersSheet[i] = orderToRow(outcome[e].order)

\* C4 witness: two such calls have both returned.
C4_Witness == \E c, d \in Calls : TwoCreatesSameOab(c, d)

\* No row of rows (header apart) has a non-empty ticket and an empty status
NoneAvailable(rows) ==
  \A i \in 2..Len(rows) : ~(Cell(rows[i], 1) # "" /\ Cell(rows[i], 2) = "")

\* C7: when the allocator's read shows no row with a non-empty ticket and an
\* empty status, the createOrder task ends there with NoTicketsAvailable: no
\* further store request (so no order append), and neither sheet changes.
C7_NoTicketsFailsWithoutWrites ==
  [][\A c \in Calls :
       (pc[c] = "at_read" /\ req[c].st = "ok" /\ NoneAvailable(req[c].rows)
          /\ pc'[c] # pc[c])
         => /\ pc'[c] = "done" /\ outcome'[c].kind = "NoTickets"
            /\ req'[c] = NoReq /\ loc'[c].order = <<>>
            /\ ordersSheet' = ordersSheet /\ ticketsSheet' = ticketsSheet]_vars

\* C7 witness: with the store answering every call, a createOrder has failed
\* with NoTicketsAvailable while the tickets sheet has no available row.
C7_Witness ==
  \E c \in Calls :
    /\ IsCreate(c) /\ outcome[c].kind = "NoTickets" /\ failures = 0
    /\ NoneAvailable(ticketsSheet) /\ loc[c].order = <<>>

\* C8: a createOrder that found a duplicate OAB never enters the allocator
\* (no tickets read, no mark, no ticket held), appends a row with empty ticket
\* and "Recusado", and returns an order with the conflict reference, present
\* in exactly one row, rather than failing with Conflict or NoTicketsAvailable.
C8_DuplicateOabIsDeniedWithoutTicket ==
  \A c \in Calls :
    (IsCreate(c) /\ loc[c].duplicateOab) =>
      /\ pc[c] \in {"co_append", "done"}
      /\ loc[c].found = "" /\ loc[c].ticket = ""
      /\ DeniedOrder(loc[c].order)
      /\ req[c].st # "none" => (req[c].kind = "append" /\ req[c].sheet = "pedidos"
                                 /\ req[c].vals = orderToRow(loc[c].order))
      /\ outcome[c].kind \in {"pending", "ok", "StoreError"}
      /\ outcome[c].kind = "ok" =>
           /\ outcome[c].conflict /\ outcome[c].order = loc[c].order
           /\ Cardinality({i \in 2..Len(ordersSheet) :
                             Cell(ordersSheet[i], 1) = outcome[c].order.uuid}) = 1

\* C8 witness: a duplicate-OAB create has returned its denied order while
\* available tickets remain.
C8_Witness ==
  \E c \in Calls :
    /\ IsCreate(c) /\ loc[c].duplicateOab /\ outcome[c].kind = "ok"
    /\ ~NoneAvailable(ticketsSheet)

\* Rows of the orders sheet, other than the call's own, whose trimmed OAB is n
MatchingRows(n, own) ==
  {i \in 2..Len(ordersSheet) :
     Trim(Cell(ordersSheet[i], 3)) = n /\ Cell(ordersSheet[i], 1) # own}

\* C9: the conflict reference of a returned createOrder is the ticket and
\* data_solicitacao of the first row, in store order, whose trimmed OAB equals
\* the trimmed input.
C9_ConflictNamesFirstMatch ==
  \A c \in Calls :
    (IsCreate(c) /\ outcome[c].kind = "ok" /\ outcome[c].conflict) =>
      LET S == MatchingRows(Trim(arg[c].numero_oab), outcome[c].order.uuid)
      IN  /\ S # {}
          /\ outcome[c].existing_ticket = Cell(ordersSheet[Min(S)], 2)
          /\ outcome[c].existing_date = Cell(ordersSheet[Min(S)], 6)

\* C9 witness: a conflict was returned when two earlier rows matched, and the
\* two rows differ in ticket.
C9_Witness ==
  \E c \in Calls :
    /\ IsCreate(c) /\ outcome[c].kind = "ok" /\ outcome[c].conflict
    /\ LET S == MatchingRows(Trim(arg[c].numero_oab), outcome[c].order.uuid)
       IN  \E i, j \in S :
             /\ i < j /\ j < Len(ordersSheet)
             /\ Cell(ordersSheet[i], 2) # Cell(ordersSheet[j], 2)

EmptyOab(c) == IsCreate(c) /\ Trim(arg[c].numero_oab) = ""

\* C10: a createOrder with an empty or whitespace-only OAB is never a
\* duplicate: it goes through the allocator, so its order is appended only
\* with a ticket and "Aprovado" and without conflict reference, and two such
\* creates hold different tickets.
C10_EmptyOabNeverDuplicate ==
  \A c \in Calls :
    EmptyOab(c) =>
      /\ ~loc[c].duplicateOab
      /\ pc[c] = "co_append" => (loc[c].ticket # "" /\ GrantedOrder(loc[c].order))
      /\ outcome[c].kind = "ok" => (GrantedOrder(outcome[c].order) /\ ~outcome[c].conflict)
      /\ \A d \in Calls :
           (d # c /\ EmptyOab(d) /\ outcome[c].kind = "ok" /\ outcome[d].kind = "ok")
             => outcome[c].order.ticket # outcome[d].order.ticket

\* C10 witness: two creates with empty OAB have both returned, the second one
\* having read a sheet that already held an order with an empty OAB.
C10_Witness ==
  \E c, d \in Calls :
    /\ c # d /\ EmptyOab(c) /\ EmptyOab(d)
    /\ arg[c].numero_oab # arg[d].numero_oab
    /\ outcome[c].kind = "ok" /\ outcome[d].kind = "ok"

\* C5: once no write of the Orders service is in progress, a cache snapshot
\* that a read would be served (present and younger than the TTL) holds the
\* orders of the sheet as the completed writes left it.
C5_ServedCacheReflectsCompletedWrites ==
  ((\A c \in Calls : LockOf(op[c]) = "orders" => ~Running(c))
     /\ CacheHit(ordersCache, ordersCacheTime))
    => ordersCache.data = DecodeOrders(ordersSheet)

\* C6: no ticket value has been returned by the allocator to two createOrder
\* calls that both went on to create their order.
C6_NoTicketHandedOutTwice ==
  \A c, d \in Calls :
    (c # d /\ IsCreate(c) /\ IsCreate(d)
       /\ outcome[c].kind = "ok" /\ outcome[d].kind = "ok"
       /\ outcome[c].order.ticket # "" /\ outcome[d].order.ticket # "")
      => outcome[c].order.ticket # outcome[d].order.ticket

\* The identifier a write addressed by identifier was called with
Identifier(c) ==
  IF op[c] \in {"updateOrder", "deleteOrder"} THEN arg[c].uuid ELSE arg[c].ticket

ByIdentifier(c) == op[c] \in {"updateOrder", "deleteOrder", "updateTicket", "deleteTicket"}

\* The store executes, in this step, the request of call c
Executes(c) == req[c].st = "sent" /\ req'[c].st = "ok"

\* Sheet after is sheet before with row n rewritten and nothing else touched
OnlyRowRewritten(before, after, n) ==
  /\ Len(after) = Len(before)
  /\ \A i \in 1..Len(before) : i # n => after[i] = before[i]

\* Sheet after is sheet before without row n, the rows below moved up
OnlyRowRemoved(before, after, n) ==
  /\ Len(after) = Len(before) - 1
  /\ \A i \in 1..Len(after) : after[i] = IF i < n THEN before[i] ELSE before[i + 1]

\* C11: the store update of updateOrder rewrites the row of the given uuid so
\* that every field absent from the input keeps the value it had in that row,
\* every field present takes the input's value, the uuid stays, and no other
\* row of either sheet changes.
C11_UpdateChangesOnlyGivenFields ==
  [][\A c \in Calls :
       (op[c] = "updateOrder" /\ req[c].kind = "update" /\ Executes(c)) =>
         /\ req[c].rowNum \in 2..Len(ordersSheet)
         /\ LET old == rowToOrder(ordersSheet[req[c].rowNum])
                new == rowToOrder(ordersSheet'[req[c].rowNum])
            IN  /\ old.uuid = arg[c].uuid /\ new.uuid = old.uuid
                /\ \A f \in UpdatableFields \ arg[c].fields : new[f] = old[f]
                /\ \A f \in arg[c].fields : new[f] = arg[c].data[f]
         /\ OnlyRowRewritten(ordersSheet, ordersSheet', req[c].rowNum)
         /\ ticketsSheet' = ticketsSheet]_vars

\* C11 witness: an update giving only the status has been executed on the
\* second of two order rows, whose other fields are not empty.
C11_Witness ==
  \E c \in Calls :
    /\ op[c] = "updateOrder" /\ arg[c].fields = {"status"} /\ arg[c].uuid = "u1"
    /\ req[c].kind = "update" /\ req[c].st = "ok"
    /\ req[c].rowNum = 3 /\ Len(ordersSheet) = 3
    /\ rowToOrder(ordersSheet[3]).nome_completo = "B"

\* C12: whenever the store executes the update or row delete of a write
\* addressed by identifier, the row it hits holds that identifier at that
\* moment, and the sheet changes in that row only (rewritten, or removed with
\* the rows below moving up); the other sheet does not change.
C12_MutationHitsIdentifiedRow ==
  [][\A c \in Calls :
       (ByIdentifier(c) /\ req[c].kind \in {"update", "delete"} /\ Executes(c)) =>
         LET before == SheetOf(req[c].sheet)
             after == IF req[c].sheet = "pedidos" THEN ordersSheet' ELSE ticketsSheet'
             n == IF req[c].kind = "update" THEN req[c].rowNum ELSE req[c].rowNum + 1
         IN  /\ n \in 2..Len(before)
             /\ Cell(before[n], 1) = Identifier(c)
             /\ IF req[c].kind = "update"
                THEN OnlyRowRewritten(before, after, n)
                ELSE OnlyRowRemoved(before, after, n)
             /\ req[c].sheet = "pedidos" => ticketsSheet' = ticketsSheet
             /\ req[c].sheet = "tickets" => ordersSheet' = ordersSheet]_vars

\* C12 witness: after the delete of order u0 has moved order u1 up to row 2,
\* a write addressed to u1 has been executed at row 2.
C12_Witness ==
  \E c, d \in Calls :
    /\ op[d] = "deleteOrder" /\ arg[d].uuid = "u0" /\ outcome[d].kind = "ok"
    /\ op[c] \in {"updateOrder", "deleteOrder"} /\ arg[c].uuid = "u1"
    /\ req[c].st = "ok"
    /\ \/ req[c].kind = "update" /\ req[c].rowNum = 2
       \/ req[c].kind = "delete" /\ req[c].rowNum = 1

\* C13: while a task whose caller has been given WriteTimeout has not
\* settled, it is still in progress with its store call (not aborted), it
\* still heads its lock's chain, and no other task of that lock is in
\* progress; and a task in progress whose caller's promise is pending keeps
\* its timeout armed, so the timeout fires once 30 seconds have passed.
C13_TimedOutTaskKeepsItsSlot ==
  \A c \in Calls :
    /\ (IsWrite(c) /\ result[c].kind = "WriteTimeout" /\ pc[c] # "done") =>
         /\ Running(c) /\ req[c].st # "none" /\ outcome[c].kind = "pending"
         /\ Len(chain[LockOf(op[c])]) > 0 /\ Head(chain[LockOf(op[c])]) = c
         /\ \A d \in Calls \ {c} :
              (IsWrite(d) /\ LockOf(op[d]) = LockOf(op[c]) /\ Started(d)) => pc[d] = "done"
    /\ (Running(c) /\ result[c].kind = "pending") =>
         /\ timer[c] >= 0
         /\ now - timer[c] >= LOCK_TIMEOUT_MS => ENABLED TimerFire(c)

\* C13 witness: a task has timed out for its caller and is still waiting for
\* the store, with another task queued behind it on the same lock.
C13_Witness ==
  \E c, d \in Calls :
    /\ EnqueuedBefore(c, d)
    /\ result[c].kind = "WriteTimeout" /\ Running(c) /\ req[c].st = "sent"
    /\ pc[d] = "queued"

\* The service an operation belongs to
ServiceOf(o) ==
  IF o \in {"createOrder", "updateOrder", "deleteOrder", "getAllOrders", "getOrderById"}
  THEN "Orders" ELSE "Tickets"

\* C14: a queued write can start as soon as every write of its own service
\* made before it has settled, whatever the writes of the other service are
\* doing.
C14_LocksAreIndependent ==
  \A c \in Calls :
    (/\ IsWrite(c) /\ pc[c] = "queued"
     /\ \A d \in Calls :
          (d < c /\ IsWrite(d) /\ ServiceOf(op[d]) = ServiceOf(op[c])) => pc[d] = "done")
      => ENABLED StartTask(c)

\* C14 witness: a Tickets write and an Orders write both have a store request
\* in flight.
C14_Witness ==
  \E c, d \in Calls :
    /\ ServiceOf(op[c]) = "Orders" /\ ServiceOf(op[d]) = "Tickets"
    /\ Running(c) /\ Running(d)
    /\ req[c].st = "sent" /\ req[d].st = "sent"

\* The read of call c ends in this step with the entities data
Returns(c, data) ==
  pc'[c] = "done" /\ outcome'[c].kind = "ok" /\ outcome'[c].data = data

\* C15: a read is answered from the snapshot, with no store request and the
\* cache left as it is, exactly when a snapshot is present and younger than
\* 5 minutes; otherwise it asks the store, and when the store answers the
\* snapshot and its time are replaced and the fresh entities returned.
C15_SnapshotServedOnlyWhenFresh ==
  [][\A c \in Calls :
       /\ (pc[c] = "idle" /\ op'[c] = "getAllOrders") =>
            IF ordersCache.present /\ now - ordersCacheTime < CACHE_TTL
            THEN /\ Returns(c, Slice(ordersCache.data, 0, DEFAULT_LIMIT))
                 /\ req'[c] = NoReq /\ UNCHANGED orderCacheVars
            ELSE /\ pc'[c] = "ro_read" /\ req'[c] = GetReq("pedidos")
       /\ (pc[c] = "idle" /\ op'[c] = "getAllTickets") =>
            IF ticketsCache.present /\ now - ticketsCacheTime < CACHE_TTL
            THEN /\ Returns(c, ticketsCache.data)
                 /\ req'[c] = NoReq /\ UNCHANGED ticketCacheVars
            ELSE /\ pc'[c] = "rt_read" /\ req'[c] = GetReq("tickets")
       /\ (pc[c] = "ro_read" /\ req[c].st = "ok" /\ pc'[c] # pc[c]) =>
            /\ ordersCache' = Cached(DecodeOrders(req[c].rows))
            /\ ordersCacheTime' = now
            /\ Returns(c, Slice(DecodeOrders(req[c].rows), 0, DEFAULT_LIMIT))
       /\ (pc[c] = "rt_read" /\ req[c].st = "ok" /\ pc'[c] # pc[c]) =>
            /\ ticketsCache' = Cached(DecodeTickets(req[c].rows))
            /\ ticketsCacheTime' = now
            /\ Returns(c, DecodeTickets(req[c].rows))]_vars

\* C15 witness: an earlier read has returned, the snapshot it left is 5 minutes
\* old, and a later read is asking the store instead of being served it.
C15_Witness ==
  \E c, d \in Calls :
    /\ d < c /\ op[d] = "getAllOrders" /\ outcome[d].kind = "ok"
    /\ op[c] = "getAllOrders" /\ pc[c] = "ro_read" /\ req[c].st = "sent"
    /\ ordersCache.present /\ now - ordersCacheTime = CACHE_TTL

\* The positions at which a handler awaits the store call that mutates a sheet
MutationPcs == {"co_append", "uo_update", "do_delete", "ct_append", "ut_update", "dt_delete"}

\* The cache of the service that operation o belongs to holds a snapshot
SnapshotPresent(o) ==
  IF ServiceOf(o) = "Orders" THEN ordersCache.present ELSE ticketsCache.present

\* C16: when the store call that mutates the sheet fails, the write ends in
\* failure and its service's cache holds no snapshot at that moment.
C16_FailedMutationLeavesNoSnapshot ==
  [][\A c \in Calls :
       (pc[c] \in MutationPcs /\ req[c].st = "err" /\ pc'[c] # pc[c]) =>
         /\ pc'[c] = "done" /\ IsFailure(outcome'[c])
         /\ ~SnapshotPresent(op[c])']_vars

\* C17: when a store call of the allocator fails inside createOrder, the
\* createOrder task fails with that store failure; NoTickets is the outcome
\* only of a scan that found no available row.
C17_AllocatorStoreFailureIsSurfaced ==
  [][\A c \in Calls :
       (pc[c] \in {"at_read", "at_mark"} /\ pc'[c] = "done") =>
         IF req[c].st = "err"
         THEN outcome'[c].kind = "StoreError"
         ELSE outcome'[c].kind = "NoTickets" /\ pc[c] = "at_read"
                /\ NoneAvailable(req[c].rows)]_vars

\* The data rows of the tickets sheet that hold ticket value t
RowsWithTicket(t) == {i \in DataRows(ticketsSheet) : Cell(ticketsSheet[i], 1) = t}

\* Calls c and d are two createTicket calls for one value that have both
\* ended as success or Conflict, no rename having been asked for
TwoCreatesSameTicket(c, d) ==
  /\ c # d /\ op[c] = "createTicket" /\ op[d] = "createTicket"
  /\ arg[c].ticket = arg[d].ticket
  /\ outcome[c].kind \in {"ok", "Conflict"} /\ outcome[d].kind \in {"ok", "Conflict"}
  /\ \A e \in Calls : op[e] # "updateTicket"

\* Of two such calls at most one succeeded, and one row holds the value
OneRowForTwoCreates ==
  \A c, d \in Calls :
    TwoCreatesSameTicket(c, d) =>
      /\ ~(outcome[c].kind = "ok" /\ outcome[d].kind = "ok")
      /\ Cardinality(RowsWithTicket(arg[c].ticket)) = 1

\* C18: createTicket, once its fresh read is answered, ends with Conflict and
\* without any store mutation when a row already holds the value, and goes on
\* to append [ticket, ""] otherwise; and two createTicket calls for the same
\* value never both succeed and leave exactly one row with that value.
C18_CreateTicketRejectsDuplicates ==
  [][/\ \A c \in Calls :
          (pc[c] = "ct_read" /\ req[c].st = "ok" /\ pc'[c] # pc[c]) =>
            IF \E i \in DataRows(req[c].rows) : Cell(req[c].rows[i], 1) = arg[c].ticket
            THEN /\ pc'[c] = "done" /\ outcome'[c].kind = "Conflict"
                 /\ req'[c] = NoReq /\ UNCHANGED sheetVars
            ELSE /\ pc'[c] = "ct_append"
                 /\ req'[c] = AppendReq("tickets", <<arg[c].ticket, "">>)
     /\ OneRowForTwoCreates']_vars

\* C18 witness: of two createTicket calls for a value the sheet did not hold,
\* one has succeeded and the other ended with Conflict.
C18_Witness ==
  \E c, d \in Calls :
    /\ TwoCreatesSameTicket(c, d)
    /\ outcome[c].kind = "ok" /\ outcome[d].kind = "Conflict"

\* C19: no two rows of the tickets sheet hold the same ticket value.
C19_TicketValuesUnique ==
  \A i, j \in DataRows(ticketsSheet) :
    (i # j /\ Cell(ticketsSheet[i], 1) # "")
      => Cell(ticketsSheet[i], 1) # Cell(ticketsSheet[j], 1)

\* C20: a write addressed by identifier whose fresh read shows no row with
\* that identifier ends there with NotFound: no further store request, and
\* neither sheet changes.
C20_NotFoundWithoutMutation ==
  [][\A c \in Calls :
       (/\ pc[c] \in {"uo_read", "do_read", "ut_read", "dt_read"} /\ req[c].st = "ok"
        /\ \A i \in DataRows(req[c].rows) : Cell(req[c].rows[i], 1) # Identifier(c)
        /\ pc'[c] # pc[c]) =>
         /\ pc'[c] = "done" /\ outcome'[c].kind = "NotFound"
         /\ result'[c].kind \in {"NotFound", "WriteTimeout"}
         /\ req'[c] = NoReq
         /\ UNCHANGED sheetVars]_vars

\* C20 witness: an updateOrder for the uuid of an order deleted before it has
\* ended with NotFound.
C20_Witness ==
  \E c, d \in Calls :
    /\ op[d] = "deleteOrder" /\ outcome[d].kind = "ok"
    /\ op[c] = "updateOrder" /\ arg[c].uuid = arg[d].uuid
    /\ outcome[c].kind = "NotFound" /\ result[c].kind = "NotFound"

\* The data rows of the orders sheet that hold an approved order whose OAB
\* number, trimmed, is oab
ApprovedRowsWithOab(oab) ==
  {i \in DataRows(ordersSheet) :
     /\ Cell(ordersSheet[i], 8) = APPROVED
     /\ Trim(Cell(ordersSheet[i], 3)) = oab}

\* C21: after any sequence of order creates, updates and deletes, no two rows
\* of the orders sheet with status "Aprovado" hold the same non-empty trimmed
\* numero_oab.
C21_ApprovedOabUnique ==
  \A i \in DataRows(ordersSheet) :
    LET oab == Trim(Cell(ordersSheet[i], 3))
    IN  (Cell(ordersSheet[i], 8) = APPROVED /\ oab # "")
          => Cardinality(ApprovedRowsWithOab(oab)) = 1


\* C22: a caller of withWriteLock is settled within the bound: once
\* LOCK_TIMEOUT_MS have passed with the call made and its caller still
\* waiting, the timeout that rejects the caller with WriteTimeout is due, also
\* for a call whose task is still queued behind an unsettled earlier task.
\* (A queued task whose turn has come starts at once: time passes only when
\* no task is in that position.)
C22_WaitingCallerTimesOut ==
  [][\A c \in Calls :
       (/\ now' - now >= LOCK_TIMEOUT_MS
        /\ \A d \in Calls : ~(pc[d] = "queued" /\ CanStart(LockOf(op[d]), d))
        /\ IsWrite(c) /\ pc[c] # "idle"
        /\ result[c].kind = "pending")
         => TimeoutDue(c)']_vars


ReadOps == {"getAllOrders", "getOrderById", "getAllTickets", "getTicket"}

\* Call c, a read, takes a step of its own in this transition
ReadStep(c) == op'[c] \in ReadOps /\ pc'[c] # pc[c]

\* The read c is under way: made and not yet settled
ReadInFlight(c) == op[c] \in ReadOps /\ pc[c] \in {"ro_read", "rt_read"}

\* C23: list and get of both services take no write lock and never invalidate
\* the cache: a step of a read leaves the lock chains and timeouts as they are
\* and never clears a snapshot; a read that finds its service's snapshot
\* present and unexpired settles in that step with both caches unchanged; and
\* a read under way can always take its next step (the store's answer, then
\* its completion) whatever the write tasks are doing.
C23_ReadsTakeNoLockAndKeepTheCache ==
  /\ [](\A c \in Calls :
          ReadInFlight(c) => ENABLED (StoreStep(c) \/ RO_Loaded(c) \/ RT_Loaded(c)))
  /\ [][\A c \in Calls :
          ReadStep(c) =>
            /\ lockVars' = lockVars
            /\ ordersCache.present => ordersCache'.present
            /\ ticketsCache.present => ticketsCache'.present
            /\ (pc[c] = "idle" /\ SnapshotPresent(op'[c])
                  /\ now - (IF ServiceOf(op'[c]) = "Orders"
                            THEN ordersCacheTime ELSE ticketsCacheTime) < CACHE_TTL)
                 => (cacheVars' = cacheVars /\ pc'[c] = "done")]_vars

\* A list and a get of orders have completed, one of them from an unexpired
\* snapshot after time has passed, while a deleteOrder made before them is
\* still running
C23_Witness ==
  \E d, c, e \in Calls :
    /\ d < c /\ d < e
    /\ op[d] = "deleteOrder" /\ Running(d)
    /\ op[c] = "getAllOrders" /\ pc[c] = "done" /\ result[c].kind = "ok"
    /\ op[e] = "getOrderById" /\ pc[e] = "done" /\ result[e].kind = "ok"
    /\ ordersCache.present /\ now > ordersCacheTime


\* Order o passes every filter of f that is given and not empty
PassesFilters(o, f) ==
  /\ ("status" \in f.given /\ f.status # "")
       => toLowerCase(o.status) = toLowerCase(f.status)
  /\ ("ticket" \in f.given /\ f.ticket # "")
       => toLowerCase(o.ticket) = toLowerCase(f.ticket)
  /\ ("oab" \in f.given /\ f.oab # "")
       => toLowerCase(Trim(o.numero_oab)) = toLowerCase(Trim(f.oab))

\* C24: when getAllOrders(filters) returns, total is the number of orders of
\* the list it read (the snapshot) that pass every given, non-empty filter,
\* and orders are those at places offset+1 .. offset+limit among them, in
\* store order, with offset 0 and limit 50 when not given.
C24_ListIsFilteredPage ==
  [][\A c \in Calls :
       (pc[c] # "done" /\ pc'[c] = "done" /\ outcome'[c].kind = "ok")
         => LET f == arg'[c].filters
                passing == SelectSeq(ordersCache'.data, LAMBDA o : PassesFilters(o, f))
                offset == IF "offset" \in f.given THEN f.offset ELSE 0
                limit == IF "limit" \in f.given THEN f.limit ELSE 50
            IN  /\ outcome'[c].total = Len(passing)
                /\ outcome'[c].data =
                     SubSeq(passing, offset + 1, Min({offset + limit, Len(passing)}))]_vars

\* On the long sheet, a listing without filters has returned the first 50 of
\* 51 orders, and one filtered by status and OAB with limit 1 has returned one
\* order of several that pass
C24_Witness ==
  \E c, e \in Calls :
    /\ pc[c] = "done" /\ outcome[c].kind = "ok" /\ arg[c].filters = NoFilters
    /\ outcome[c].total = 51 /\ Len(outcome[c].data) = 50
    /\ pc[e] = "done" /\ outcome[e].kind = "ok"
    /\ arg[e].filters.given = {"status", "oab", "limit"}
    /\ outcome[e].total > 1 /\ Len(outcome[e].data) = 1


\* The store executes, in this step, the allocator's status update of call c
MarkerWritten(c) == pc[c] = "at_mark" /\ Executes(c)

\* C29: when the store executes the allocator's status update, the row it
\* writes "Atribuído" into holds, at that moment, the ticket value the
\* allocator returns, whatever deletes and renames of the Tickets service ran
\* in between.
C29_MarkerOnReturnedTicket ==
  [][\A c \in Calls :
       MarkerWritten(c) => Cell(Cell(ticketsSheet, req[c].rowNum), 1) = loc[c].found]_vars


\* The rows after the header whose ticket cell is not empty and whose status
\* cell is empty
AvailableRows(rows) ==
  {i \in 2..Len(rows) : Cell(rows[i], 1) # "" /\ Cell(rows[i], 2) = ""}

\* C30: once its read is answered, assignAvailableTicket fails with
\* NoTicketsAvailable, writing nothing, exactly when no row after the header
\* has a ticket and an empty status; otherwise it takes the first such row,
\* asks the store to write one non-empty value into that row's status cell,
\* which changes that cell and nothing else, and once that is answered it
\* invalidates the Tickets cache and returns the ticket value of that row.
C30_AllocatorTakesFirstAvailable ==
  [][\A c \in Calls :
       /\ (pc[c] = "at_read" /\ pc'[c] # "at_read" /\ req[c].st = "ok")
            => LET rows == req[c].rows
               IN  IF AvailableRows(rows) = {}
                   THEN outcome'[c].kind = "NoTickets" /\ req'[c].st = "none"
                   ELSE LET first == Min(AvailableRows(rows))
                        IN  /\ outcome'[c].kind = "pending"
                            /\ loc'[c].found = Cell(rows[first], 1)
                            /\ req'[c].kind = "update" /\ req'[c].sheet = "tickets"
                            /\ req'[c].rowNum = first /\ req'[c].col = 2
                            /\ Len(req'[c].vals) = 1 /\ req'[c].vals[1] # ""
       /\ MarkerWritten(c)
            => LET n == req[c].rowNum
               IN  /\ OnlyRowRewritten(ticketsSheet, ticketsSheet', n)
                   /\ Len(ticketsSheet'[n]) = 2
                   /\ Cell(ticketsSheet'[n], 1) = Cell(ticketsSheet[n], 1)
                   /\ Cell(ticketsSheet'[n], 2) # ""
                   /\ ordersSheet' = ordersSheet
       /\ (pc[c] = "at_mark" /\ pc'[c] # "at_mark" /\ req[c].st = "ok")
            => /\ ~ticketsCache'.present
               /\ loc'[c].ticket = loc[c].found
               /\ Cell(Cell(ticketsSheet, req[c].rowNum), 1) = loc[c].found]_vars

\* One allocator run has returned T2, found below a row without a ticket
\* value and a marked row and marked in its own row, and a later run with
\* only marked rows left has failed with NoTicketsAvailable
C30_Witness ==
  \E c, d \in Calls :
    /\ loc[c].ticket = "T2"
    /\ ticketsSheet[2] = <<"", "">> /\ ticketsSheet[4] = <<"T2", ASSIGNED>>
    /\ IsCreate(d) /\ outcome[d].kind = "NoTickets" /\ AvailableRows(ticketsSheet) = {}



\* The number of requests in a set of (time, number) entries
RECURSIVE SumPassed(_)
SumPassed(S) ==
  IF S = {} THEN 0
  ELSE LET p == CHOOSE q \in S : TRUE IN p[2] + SumPassed(S \ {p})

\* The requests of key k that rateLimiter passed on at time t or later
PassedSince(k, t) == SumPassed({p \in passed[k] : p[1] >= t})

\* C26 (as claimed): within any 60-second interval, here the last WINDOW_MS
\* up to now, at most 100 requests of one client key are passed on by
\* rateLimiter.
C26_AtMost100PerInterval ==
  \A k \in Keys : SumPassed(passed[k]) <= MAX_REQUESTS

\* C26 (amended): within one counting window of a client key, which starts at
\* the windowStart of its entry and lasts until a request comes more than 60 s
\* later, at most 100 requests are passed on by rateLimiter, and every further
\* request of the key in that window is answered 429 and reaches no route.
C26_AtMost100PerWindow ==
  /\ [](\A k \in Keys :
          requests[k].present => PassedSince(k, requests[k].windowStart) <= MAX_REQUESTS)
  /\ [][(/\ http.stage = "rateLimiter"
          /\ requests[http.key].present
          /\ now - requests[http.key].windowStart <= WINDOW_MS
          /\ PassedSince(http.key, requests[http.key].windowStart) >= MAX_REQUESTS)
           => (/\ http'.stage = "responded" /\ http'.status = 429
               /\ http'.service = "none"
               /\ passed' = passed)]_vars

\* The hundred requests of a window have passed and a further one was refused
C26_Witness ==
  /\ http.stage = "responded" /\ http.status = 429
  /\ requests[http.key].present
  /\ PassedSince(http.key, requests[http.key].windowStart) = MAX_REQUESTS


\* Key k has five or more failed authentications in its failure window, and
\* no more than 15 minutes have passed since that window started
Blocked(k) ==
  /\ requests[k].present
  /\ requests[k].authFailures >= MAX_AUTH_FAILURES
  /\ now - requests[k].authFailStart <= AUTH_FAIL_WINDOW_MS

\* C27: once a client key has five failed authentications within one failure
\* window, its requests to the API routes are answered 429 by authRateLimiter
\* and reach neither basicAuth nor a service, and the block stays until more
\* than 15 minutes have passed since the start of that failure window: no
\* step, the periodic cleanup of the map included, lifts it earlier.
C27_BlockHoldsForTheWindow ==
  /\ [](http.route \in ApiRoutes /\ Blocked(http.key)
          => http.stage \notin {"basicAuth", "handler", "service"})
  /\ [][(http.stage = "authRateLimiter" /\ Blocked(http.key))
           => (http'.stage = "responded" /\ http'.status = 429)]_vars
  /\ [][\A k \in Keys :
          (Blocked(k) /\ now' - requests[k].authFailStart <= AUTH_FAIL_WINDOW_MS)
            => Blocked(k)']_vars


\* The guards among the middleware a request has passed, in order
GuardsPassed(trail) ==
  SelectSeq(trail, LAMBDA m : m \in {"rateLimiter", "authRateLimiter", "basicAuth"})

Answered(kind) == http.stage = "responded" /\ http.settled = kind

\* C25: an answered request has status 404 when the service reported
\* NotFound (or no such entity), 409 on a ticket Conflict, 409 with the
\* created order, existing_ticket and existing_date on an order Conflict
\* outcome, 422 on NoTicketsAvailable, and on any other error 500 or the
\* error's own status; a request refused by the route's schema is answered
\* 400 and no service is invoked for it.
C25_OutcomesMapToStatuses ==
  /\ [](/\ Answered("NotFoundError") \/ Answered("null") => http.status = 404
        /\ Answered("ConflictError") => http.status = 409
        /\ Answered("conflict")
             => /\ http.status = 409
                /\ {"data", "existing_ticket", "existing_date"} \subseteq http.carries
        /\ Answered("NoTicketsError") => http.status = 422
        /\ \A kind \in {"Error", "StatusError", "TimeoutError"} :
             Answered(kind)
               => \/ http.status = 500
                  \/ http.status # 0 /\ http.status \in {http.error.status, http.error.statusCode})
  /\ [][(http.stage = "handler" /\ http.route \in Validating /\ http.body = "invalid")
           => (/\ http'.stage = "responded" /\ http'.status = 400
               /\ http'.service = "none")]_vars

\* The duplicate-registration outcome of createOrder has been answered
C25_Witness ==
  /\ Answered("conflict") /\ http.route = "POST /api/orders"
  /\ http.service = "createOrder"


\* The store executes the order append of createOrder call c
OrderAppended(c) == IsCreate(c) /\ pc[c] = "co_append" /\ Executes(c)

\* C31: the row the store appends for a createOrder call has, as appended,
\* either a ticket and status "Aprovado" or no ticket and status "Recusado";
\* a ticket in it is the value the allocator scanned for this call and holds
\* from its marking to the append, and the row that received the marker in
\* this call held that value when it was marked.
C31_AppendedRowGrantedOrDenied ==
  /\ [][\A c \in Calls :
          OrderAppended(c) =>
            LET o == rowToOrder(ordersSheet'[Len(ordersSheet')])
            IN  /\ Len(ordersSheet') = Len(ordersSheet) + 1
                /\ GrantedOrder(o) \/ DeniedOrder(o)
                /\ GrantedOrder(o) => (o.ticket = loc[c].found /\ ~loc[c].duplicateOab)
                /\ DeniedOrder(o) => (loc[c].found = "" /\ loc[c].duplicateOab)]_vars
  /\ [][\A c \in Calls :
          (IsCreate(c) /\ pc[c] \in {"at_mark", "co_append"})
            => loc'[c].found = loc[c].found]_vars
  /\ [][\A c \in Calls :
          MarkerWritten(c)
            => /\ req[c].rowNum <= Len(ticketsSheet')
               /\ ticketsSheet'[req[c].rowNum] = <<loc[c].found, ASSIGNED>>]_vars


\* Ticket value t stands in a tickets row marked "Atribuído"
MarkedAssigned(t) ==
  \E i \in 2..Len(ticketsSheet) : ticketsSheet[i] = <<t, ASSIGNED>>

\* Some order row holds ticket value t
HeldByOrder(t) ==
  \E i \in 2..Len(ordersSheet) : Cell(ordersSheet[i], 2) = t

\* C32: once a createOrder task has ended in failure, the ticket its
\* allocator scanned, if any, is not marked "Atribuído" unless an order row
\* holds it: a failed create leaves no ticket consumed without an order.
C32_FailedCreateConsumesNoTicket ==
  \A c \in Calls :
    (IsCreate(c) /\ pc[c] = "done" /\ IsFailure(outcome[c]) /\ loc[c].found # "")
      => (MarkedAssigned(loc[c].found) => HeldByOrder(loc[c].found))


\* The uuid cells of a sheet's rows, header included, in row order
UuidColumn(sheet) == [i \in 1..Len(sheet) |-> Cell(sheet[i], 1)]

\* Call c is an o whose store request is executed in this step
ExecutesOp(c, o) == op[c] = o /\ Executes(c) /\ req[c].kind # "get"

\* C33: no two order rows have the same uuid, and every step leaves the
\* orders sheet as it is except for the store executing one of: the update of
\* an updateOrder, which rewrites one row and keeps every uuid cell; the
\* append of a createOrder, which adds one row at the end with a uuid no row
\* has; the delete of a deleteOrder, which removes one row and leaves the
\* others in order.
C33_UuidStableOneRowPerOrder ==
  /\ [](\A i, j \in 2..Len(ordersSheet) :
          i # j => Cell(ordersSheet[i], 1) # Cell(ordersSheet[j], 1))
  /\ [][\/ ordersSheet' = ordersSheet
        \/ \E c \in Calls, n \in 2..Len(ordersSheet) :
             /\ ExecutesOp(c, "updateOrder")
             /\ OnlyRowRewritten(ordersSheet, ordersSheet', n)
             /\ UuidColumn(ordersSheet') = UuidColumn(ordersSheet)
        \/ \E c \in Calls :
             /\ ExecutesOp(c, "createOrder")
             /\ Len(ordersSheet') = Len(ordersSheet) + 1
             /\ SubSeq(ordersSheet', 1, Len(ordersSheet)) = ordersSheet
             /\ Cell(ordersSheet'[Len(ordersSheet')], 1) # ""
             /\ \A i \in 1..Len(ordersSheet) :
                  Cell(ordersSheet[i], 1) # Cell(ordersSheet'[Len(ordersSheet')], 1)
        \/ \E c \in Calls, n \in 2..Len(ordersSheet) :
             /\ ExecutesOp(c, "deleteOrder")
             /\ OnlyRowRemoved(ordersSheet, ordersSheet', n)]_vars

\* An order was created, then updated under its uuid, and an order was deleted
C33_Witness ==
  \E c, d, e \in Calls :
    /\ op[c] = "createOrder" /\ outcome[c].kind = "ok"
    /\ op[d] = "updateOrder" /\ outcome[d].kind = "ok"
    /\ arg[d].uuid = outcome[c].order.uuid
    /\ op[e] = "deleteOrder" /\ outcome[e].kind = "ok"


\* The identifier of call c is the text of a header cell
HeaderIdentifier(c) == arg[c].uuid = "uuid" \/ arg[c].ticket = "ticket"

\* C34: the first row of each sheet never changes; no store request in flight
\* updates or deletes it; a call whose identifier is the header cell's text
\* finds nothing (null for a get, NotFound for update, rename and delete); no
\* list holds the header as an entity and the allocator never hands out the
\* header's ticket cell.
C34_HeaderRowIsReserved ==
  /\ [][ordersSheet'[1] = ordersSheet[1] /\ ticketsSheet'[1] = ticketsSheet[1]]_vars
  /\ [](\A c \in Calls :
          /\ req[c].kind = "update" => req[c].rowNum >= 2
          /\ req[c].kind = "delete" => req[c].rowNum >= 1
          /\ (HeaderIdentifier(c) /\ pc[c] = "done")
               => \/ outcome[c].kind = "NotFound"
                  \/ /\ op[c] \in {"getOrderById", "getTicket"}
                     /\ outcome[c] = Ok
          /\ op[c] = "getAllOrders" =>
               \A i \in 1..Len(outcome[c].data) : outcome[c].data[i].uuid # "uuid"
          /\ op[c] = "getAllTickets" =>
               \A i \in 1..Len(outcome[c].data) : outcome[c].data[i].ticket # "ticket"
          /\ op[c] = "createOrder" => loc[c].found # "ticket")

\* From the sheet whose header has no status cell: a delete by the header's
\* text found nothing, and the allocator handed out a ticket
C34_Witness ==
  /\ ticketsSheet[1] = <<"ticket">>
  /\ \E c, d \in Calls :
       /\ op[c] = "deleteTicket" /\ arg[c].ticket = "ticket"
       /\ outcome[c].kind = "NotFound"
       /\ op[d] = "createOrder" /\ outcome[d].kind = "ok"
       /\ outcome[d].order.ticket = "T2"


\* Every non-empty status cell of sheet before is unchanged, at its row, in after
StatusesKept(before, after) ==
  /\ Len(after) >= Len(before)
  /\ \A i \in 2..Len(before) :
       Cell(before[i], 2) # "" => Cell(after[i], 2) = Cell(before[i], 2)

\* C35: a step changes the tickets sheet only by adding a row at the end, by
\* removing one row, or by writes that leave every non-empty status cell as
\* it was; the rename of updateTicket rewrites one row and keeps its status
\* cell, and the store requests of updateOrder and deleteOrder leave the
\* tickets sheet unchanged.
C35_StatusNeverCleared ==
  /\ [][\/ StatusesKept(ticketsSheet, ticketsSheet')
        \/ \E n \in 2..Len(ticketsSheet) :
             OnlyRowRemoved(ticketsSheet, ticketsSheet', n)]_vars
  /\ [][\A c \in Calls :
          /\ (ExecutesOp(c, "updateTicket"))
               => /\ req[c].rowNum \in 2..Len(ticketsSheet)
                  /\ OnlyRowRewritten(ticketsSheet, ticketsSheet', req[c].rowNum)
                  /\ Cell(ticketsSheet'[req[c].rowNum], 2)
                       = Cell(ticketsSheet[req[c].rowNum], 2)
          /\ (Executes(c) /\ op[c] \in {"updateOrder", "deleteOrder"})
               => ticketsSheet' = ticketsSheet]_vars

\* The ticket of order u0 was renamed and the order deleted: its tickets row
\* is still marked
C35_Witness ==
  /\ \E c, d \in Calls :
       /\ op[c] = "updateTicket" /\ arg[c].ticket = "T1" /\ outcome[c].kind = "ok"
       /\ op[d] = "deleteOrder" /\ arg[d].uuid = "u0" /\ outcome[d].kind = "ok"
  /\ \E i \in 2..Len(ticketsSheet) : ticketsSheet[i] = <<"T2", ASSIGNED>>


\* The row that the rename of call c addresses
RenameTarget(c) == req[c].rowNum

\* C38: the store request of updateTicket(oldTicket, newTicket) addresses the
\* row that holds oldTicket, rewrites that row only, puts newTicket in its
\* ticket cell and leaves its status cell as it was; no row moves, and the
\* orders sheet is unchanged, order rows storing oldTicket included.
C38_RenameWritesTicketCellOnly ==
  [][\A c \in Calls : ExecutesOp(c, "updateTicket") =>
       /\ RenameTarget(c) \in 1..Len(ticketsSheet)
       /\ Cell(ticketsSheet[RenameTarget(c)], 1) = arg[c].ticket
       /\ OnlyRowRewritten(ticketsSheet, ticketsSheet', RenameTarget(c))
       /\ Cell(ticketsSheet'[RenameTarget(c)], 1) = arg[c].newTicket
       /\ Cell(ticketsSheet'[RenameTarget(c)], 2)
            = Cell(ticketsSheet[RenameTarget(c)], 2)
       /\ Len(ticketsSheet'[RenameTarget(c)]) = Len(ticketsSheet[RenameTarget(c)])
       /\ ordersSheet' = ordersSheet]_vars

\* T1 was renamed to T2 while order u0 stores T1: the order row still reads T1
C38_Witness ==
  /\ \E c \in Calls :
       /\ op[c] = "updateTicket" /\ arg[c].ticket = "T1"
       /\ arg[c].newTicket = "T2" /\ outcome[c].kind = "ok"
  /\ \E i \in 2..Len(ordersSheet) :
       Cell(ordersSheet[i], 1) = "u0" /\ Cell(ordersSheet[i], 2) = "T1"
  /\ \A i \in 2..Len(ticketsSheet) : Cell(ticketsSheet[i], 1) # "T1"


\* The task of call c settles in this step
TaskSettles(c) == outcome[c].kind = "pending" /\ outcome'[c].kind # "pending"

\* C37: the promise returned by a withWriteLock call settles at most once.
\* Once settled it never changes; when the task settles while the caller's
\* promise is pending, the caller gets the task's result or failure and the
\* timer is cleared; when the timer has fired first, the caller keeps
\* WriteTimeout as the task settles; and a task that has settled has no
\* timer left to fire.
C37_PromiseSettlesOnce ==
  /\ [][\A c \in Calls :
          /\ result[c].kind # "pending" => result'[c] = result[c]
          /\ (TaskSettles(c) /\ result[c].kind = "pending")
               => result'[c] = outcome'[c]
          /\ (TaskSettles(c) /\ result[c].kind = "WriteTimeout")
               => result'[c].kind = "WriteTimeout"
          /\ TaskSettles(c) => timer'[c] = -1]_vars
  /\ [](\A c \in Calls :
          (IsWrite(c) /\ outcome[c].kind # "pending")
            => (timer[c] = -1 /\ ~ENABLED TimerFire(c)))

\* Both orders of the race: one caller was timed out and its task created
\* the order afterwards; another caller got its task's result after a
\* timeout's worth of time went by
C37_Witness ==
  /\ \E c \in Calls :
       /\ IsWrite(c) /\ result[c].kind = "WriteTimeout" /\ outcome[c].kind = "ok"
  /\ \E d \in Calls :
       /\ IsWrite(d) /\ result[d].kind # "WriteTimeout"
       /\ result[d].kind # "pending" /\ result[d] = outcome[d]
       /\ now >= LOCK_TIMEOUT_MS


\* ------------------------------------------- the query of GET /api/orders
DecimalDigits == {"0", "1", "2", "3", "4", "5", "6", "7", "8", "9"}

\* The characters of string s from the i-th to the last
From(s, i) == SubSeq(s, i, Len(s))

CharAt(s, i) == SubSeq(s, i, i)

AllIn(s, chars) == \A i \in 1..Len(s) : CharAt(s, i) \in chars

\* String.prototype.indexOf for one of the characters, 1-based, 0 when absent
IndexOfAny(s, chars) ==
  IF \E i \in 1..Len(s) : CharAt(s, i) \in chars
  THEN Min({i \in 1..Len(s) : CharAt(s, i) \in chars})
  ELSE 0

\* The digits of radix base
DigitsOf(base) == SubSeq("0123456789abcdef", 1, base)

LowerCase(ch) ==
  IF IndexOfAny("ABCDEF", {ch}) = 0 THEN ch
  ELSE CharAt("abcdef", IndexOfAny("ABCDEF", {ch}))

IsDigitOf(ch, base) == IndexOfAny(DigitsOf(base), {LowerCase(ch)}) # 0

DigitValue(ch) == IndexOfAny(DigitsOf(16), {LowerCase(ch)}) - 1

\* The mathematical value of a string of digits in radix base
RECURSIVE DigitsValue(_, _)
DigitsValue(s, base) ==
  IF Len(s) = 0 THEN 0
  ELSE DigitsValue(SubSeq(s, 1, Len(s) - 1), base) * base + DigitValue(CharAt(s, Len(s)))

RECURSIVE Pow10(_)
Pow10(k) == IF k <= 0 THEN 1 ELSE 10 * Pow10(k - 1)

\* Number values: NaN, the infinities, and the finite numbers, of which the
\* model keeps whether they are integers and their floor
NaN == [kind |-> "NaN", int |-> FALSE, value |-> 0]
Infinity == [kind |-> "Infinity", int |-> FALSE, value |-> 0]
Finite(integer, v) == [kind |-> "number", int |-> integer, value |-> v]

\* digits * 10^exponent, negated when negative
Scaled(negative, digits, exponent) ==
  LET signed(v) == IF negative THEN 0 - v ELSE v
  IN  IF exponent >= 0 THEN Finite(TRUE, signed(digits * Pow10(exponent)))
      ELSE IF digits % Pow10(0 - exponent) = 0
      THEN Finite(TRUE, signed(digits \div Pow10(0 - exponent)))
      ELSE Finite(FALSE, IF negative THEN 0 - (digits \div Pow10(0 - exponent)) - 1
                         ELSE digits \div Pow10(0 - exponent))

\* StrDecimalLiteral: [+-] (Infinity | digits [. digits] [e [+-] digits])
StrDecimalLiteral(t) ==
  LET signed == Len(t) > 0 /\ CharAt(t, 1) \in {"+", "-"}
      negative == signed /\ CharAt(t, 1) = "-"
      u == IF signed THEN From(t, 2) ELSE t
      ePos == IndexOfAny(u, {"e", "E"})
      mantissa == IF ePos = 0 THEN u ELSE SubSeq(u, 1, ePos - 1)
      expPart == IF ePos = 0 THEN "" ELSE From(u, ePos + 1)
      expSigned == Len(expPart) > 0 /\ CharAt(expPart, 1) \in {"+", "-"}
      expDigits == IF expSigned THEN From(expPart, 2) ELSE expPart
      expValue == IF expSigned /\ CharAt(expPart, 1) = "-"
                  THEN 0 - DigitsValue(expDigits, 10) ELSE DigitsValue(expDigits, 10)
      dot == IndexOfAny(mantissa, {"."})
      intDigits == IF dot = 0 THEN mantissa ELSE SubSeq(mantissa, 1, dot - 1)
      fracDigits == IF dot = 0 THEN "" ELSE From(mantissa, dot + 1)
      wellFormed == /\ AllIn(intDigits, DecimalDigits)
                    /\ AllIn(fracDigits, DecimalDigits)
                    /\ Len(intDigits) + Len(fracDigits) > 0
                    /\ ePos # 0 => (Len(expDigits) > 0 /\ AllIn(expDigits, DecimalDigits))
  IN  IF u = "Infinity" THEN Infinity
      ELSE IF ~wellFormed THEN NaN
      ELSE Scaled(negative, DigitsValue(intDigits \o fracDigits, 10),
                  IF ePos = 0 THEN 0 - Len(fracDigits) ELSE expValue - Len(fracDigits))

\* The radix of a 0x / 0o / 0b literal, 0 for any other text
RadixOf(t) ==
  IF Len(t) < 2 \/ CharAt(t, 1) # "0" THEN 0
  ELSE CASE CharAt(t, 2) \in {"x", "X"} -> 16
         [] CharAt(t, 2) \in {"o", "O"} -> 8
         [] CharAt(t, 2) \in {"b", "B"} -> 2
         [] OTHER -> 0

\* StringNumericLiteral without its surrounding white space
StrNumericLiteral(t) ==
  IF RadixOf(t) # 0
  THEN IF Len(t) > 2 /\ \A i \in 3..Len(t) : IsDigitOf(CharAt(t, i), RadixOf(t))
       THEN Finite(TRUE, DigitsValue(From(t, 3), RadixOf(t)))
       ELSE NaN
  ELSE StrDecimalLiteral(t)

\* Number(string): white space is stripped, and the empty text is 0
Number(s) == IF Trim(s) = "" THEN Finite(TRUE, 0) ELSE StrNumericLiteral(Trim(s))

\* .int(): Number.isInteger
IsInteger(v) == v.kind = "number" /\ v.int

\* A query string: given is the set of parameters present, the values are
\* their texts
NoQuery == [given |-> {}, status |-> "", ticket |-> "", oab |-> "", limit |-> "",
            offset |-> ""]

\* limit: z.coerce.number().int().min(1).max(100).optional()
LimitParses(q) ==
  "limit" \in q.given =>
     LET v == Number(q.limit)
     IN  v.kind # "NaN" /\ IsInteger(v) /\ v.value >= 1 /\ v.value <= 100

\* offset: z.coerce.number().int().min(0).optional()
OffsetParses(q) ==
  "offset" \in q.given =>
     LET v == Number(q.offset)
     IN  v.kind # "NaN" /\ IsInteger(v) /\ v.value >= 0

\* orderFiltersSchema.safeParse(req.query): success, and the data on success
orderFiltersSchema(q) ==
  [success |-> LimitParses(q) /\ OffsetParses(q),
   data |-> [given |-> q.given, status |-> q.status, ticket |-> q.ticket,
             oab |-> q.oab,
             limit |-> IF "limit" \in q.given THEN Number(q.limit).value ELSE 0,
             offset |-> IF "offset" \in q.given THEN Number(q.offset).value ELSE 0]]

\* The texts a client sends for limit or offset
PagingTexts == {"", " ", "abc", "0", "1", "100", "101", "-1", "1.5", "5.0", "1e1",
                "0x10", " 7 ", "Infinity"}

\* The queries of the requests: one paging parameter, both, neither, and a
\* filter next to a paging parameter
QueryInputs ==
  { [NoQuery EXCEPT !.given = {"limit"}, !.limit = t] : t \in PagingTexts }
  \cup { [NoQuery EXCEPT !.given = {"offset"}, !.offset = t] : t \in PagingTexts }
  \cup { [NoQuery EXCEPT !.given = {"limit", "offset"}, !.limit = "1", !.offset = t] :
           t \in {"1", "-1", ""} }
  \cup { [NoQuery EXCEPT !.given = {"status", "limit"}, !.status = APPROVED,
                         !.limit = "200"],
         NoQuery }

\* router.get("/"): the handler of GET /api/orders up to its await of
\* ordersService.getAllOrders(parsed.data), for the request that call c serves
listOrders(c) ==
  /\ http.stage \in {"idle", "responded"}
  /\ pc[c] = "idle"
  /\ \A d \in Calls : d < c => pc[d] # "idle"
  /\ \E q \in QueryInputs :
       LET parsed == orderFiltersSchema(q)
           request == [query |-> q, call |-> c]
                        @@ [NoHttp EXCEPT !.route = "GET /api/orders"]
       IN  IF ~parsed.success
           THEN /\ http' = [request EXCEPT !.stage = "responded", !.status = 400]
                /\ UNCHANGED <<now, serviceVars>>
           ELSE /\ http' = [request EXCEPT !.stage = "service",
                                           !.service = "getAllOrders"]
                /\ ReadOrdersCall(c, "getAllOrders", [NoArg EXCEPT !.filters = parsed.data])
  /\ UNCHANGED <<requests, production, elapses, passed>>

\* getAllOrders has settled: res.json({ success, count, total, limit, offset,
\* data }) or next(err)
listOrdersSettles(c) ==
  /\ http.stage = "service" /\ http.route = "GET /api/orders"
  /\ "call" \in DOMAIN http /\ http.call = c
  /\ pc[c] = "done"
  /\ IF result[c].kind = "ok"
     THEN http' = [http EXCEPT !.stage = "responded", !.settled = "ok", !.status = 200,
                               !.carries = {"count", "total", "limit", "offset", "data"}]
     ELSE http' = [http EXCEPT !.stage = "errorHandler", !.settled = "Error",
                               !.error = ErrorOf("Error", "getAllOrders")]
  /\ UNCHANGED <<requests, production, elapses, passed, now, serviceVars>>

InitFilters ==
  /\ ticketsSheet = <<TicketsHeader>>
  /\ ordersSheet = <<OrdersHeader,
                     <<"u0", "T1", "7a", "A", "", "0", "0", APPROVED, "">>,
                     <<"u1", "", "7b", "B", "", "1", "1", DENIED, "">> >>
  /\ InitProgram

\* The order list requested with paging parameters as clients can write them
NextFilters ==
  \/ \E c \in Calls :
       \/ listOrders(c)
       \/ StoreStep(c)
       \/ RO_Loaded(c)
       \/ listOrdersSettles(c)
  \/ errorHandler

SpecFilters == InitFilters /\ [][NextFilters]_vars


\* The text is a numeral, in any notation Number() reads, of an integer
\* that is at least lo
IsIntegerAtLeast(text, lo) ==
  /\ Trim(text) # ""
  /\ IsInteger(StrNumericLiteral(Trim(text)))
  /\ StrNumericLiteral(Trim(text)).value >= lo

\* The query gives a limit that is not an integer in 1..100 or an offset that
\* is not an integer >= 0
BadPaging(q) ==
  \/ /\ "limit" \in q.given
     /\ ~(IsIntegerAtLeast(q.limit, 1) /\ StrNumericLiteral(Trim(q.limit)).value <= 100)
  \/ "offset" \in q.given /\ ~IsIntegerAtLeast(q.offset, 0)

\* The handler of GET /api/orders runs for a request in this step
ListRequestHandled ==
  /\ http.stage \in {"idle", "responded"}
  /\ http'.stage \in {"responded", "service"}
  /\ http' # http
  /\ http'.route = "GET /api/orders"

\* C36: the handler of GET /api/orders answers 400 without calling the Orders
\* service when the query gives a limit that is not an integer in 1..100 or
\* an offset that is not an integer >= 0; every other request calls
\* getAllOrders with the limit and offset the query gives, as numbers.
C36_ListRejectsBadPaging ==
  [][ListRequestHandled =>
       IF BadPaging(http'.query)
       THEN /\ http'.stage = "responded" /\ http'.status = 400
            /\ UNCHANGED <<op, arg, pc, req, result>>
       ELSE /\ http'.stage = "service"
            /\ pc[http'.call] = "idle" /\ pc'[http'.call] # "idle"
            /\ op'[http'.call] = "getAllOrders"
            /\ arg'[http'.call].filters.given = http'.query.given
            /\ "limit" \in http'.query.given =>
                 arg'[http'.call].filters.limit
                   = StrNumericLiteral(Trim(http'.query.limit)).value
            /\ "offset" \in http'.query.given =>
                 arg'[http'.call].filters.offset
                   = StrNumericLiteral(Trim(http'.query.offset)).value]_vars


\* ------------------------------------------------ the lock under fairness
InitQueue ==
  /\ ticketsSheet = <<TicketsHeader, <<"T1", ASSIGNED>>, <<"T3", "">> >>
  /\ ordersSheet = <<OrdersHeader,
                     <<"u0", "T1", "7", "A", "", "0", "0", APPROVED, "">> >>
  /\ InitProgram

\* Deletions on both locks; the store may fail a request, or leave it
\* unanswered for ever
NextQueue ==
  \E c \in Calls :
    \/ deleteOrder(c)
    \/ deleteTicket(c)
    \/ StartTask(c)
    \/ StoreStep(c)
    \/ DO_Resolve(c)
    \/ DO_Deleted(c)
    \/ DT_Resolve(c)
    \/ DT_Deleted(c)

\* The event loop runs every callback that is ready: the chained callback of
\* a task whose predecessor has settled, and the continuation of a handler
\* whose store call has been answered.  Nothing obliges the store to answer.
QueueFairness ==
  \A c \in Calls :
    /\ WF_vars(StartTask(c))
    /\ WF_vars(DO_Resolve(c) \/ DO_Deleted(c) \/ DT_Resolve(c) \/ DT_Deleted(c))

SpecQueue == InitQueue /\ [][NextQueue]_vars /\ QueueFairness

\* C39: a task waiting on a write lock eventually starts, provided every
\* task enqueued before it on that lock eventually settles; and a waiting
\* task that cannot start has a task enqueued before it on its lock that has
\* not settled.
C39_QueuedTaskEventuallyStarts ==
  /\ \A c \in Calls :
       (\A d \in Calls : EnqueuedBefore(d, c) ~> pc[d] = "done")
         => ((IsWrite(c) /\ pc[c] = "queued") ~> Started(c))
  /\ [](\A c \in Calls :
          (IsWrite(c) /\ pc[c] = "queued" /\ ~ENABLED StartTask(c))
            => \E d \in Calls : EnqueuedBefore(d, c) /\ pc[d] # "done")

\* A task has started after the failure of the task enqueued before it, with
\* a third task still waiting
C39_Witness ==
  \E d, c, e \in Calls :
    /\ EnqueuedBefore(d, c) /\ EnqueuedBefore(c, e)
    /\ pc[d] = "done" /\ IsFailure(outcome[d])
    /\ Running(c) /\ pc[e] = "queued"

====
